---- MODULE Spec2Model ----
(***************************************************************************)
(* A model of UniversalLoader (data_loader.py): the per-file cleaners, the *)
(* merger/deduplicator, the parquet cache of scan_and_load and the member  *)
(* identity resolution of enrich_data.                                     *)
(*                                                                         *)
(* Data frames are modelled as [cols, rows]: cols is the set of column     *)
(* names and rows a sequence of functions from cols to cells.  A cell is   *)
(* [t, v]: v is the text str() gives for the value and t its type          *)
(* ("str", "int", "float", "ts" for a Timestamp, "na" for NaN/None/NaT).   *)
(***************************************************************************)
EXTENDS Integers, Sequences, FiniteSets, TLC

VARIABLES
    disk,                 \* candidate raw files in os.walk order
    clock,                \* file-system time
    cache,                \* cache/df_report.parquet and cache/df_details.parquet
    pc,                   \* position inside scan_and_load / enrich_data
    raw_files_to_process, \* paths collected by the walk
    todo,                 \* index of the next path of raw_files_to_process
    seen_files,
    report_data,
    invoice_data,
    details_data,
    debug_logs,
    df_report,
    df_details,
    latest_dates,         \* self.latest_dates, NoAttribute until _merge_data sets it
    returned,             \* what each finished scan_and_load call returned
    enriched              \* what enrich_data returned

vars == <<disk, clock, cache, pc, raw_files_to_process, todo, seen_files,
          report_data, invoice_data, details_data, debug_logs, df_report,
          df_details, latest_dates, returned, enriched>>

(***************************************************************************)
(* Strings                                                                 *)
(***************************************************************************)
CharAt(s, i) == SubSeq(s, i, i)

Digits == {"0", "1", "2", "3", "4", "5", "6", "7", "8", "9"}

\* str.isdigit(): non-empty and every character a digit
IsDigit(s) == Len(s) > 0 /\ \A i \in 1..Len(s) : CharAt(s, i) \in Digits

Whitespace == {" ", "\t"}

RECURSIVE LStrip(_)
LStrip(s) == IF Len(s) > 0 /\ CharAt(s, 1) \in Whitespace
             THEN LStrip(SubSeq(s, 2, Len(s))) ELSE s

RECURSIVE RStrip(_)
RStrip(s) == IF Len(s) > 0 /\ CharAt(s, Len(s)) \in Whitespace
             THEN RStrip(SubSeq(s, 1, Len(s) - 1)) ELSE s

\* str.strip()
Strip(s) == RStrip(LStrip(s))

UpperChars == "ABCDEFGHIJKLMNOPQRSTUVWXYZ"
LowerChars == "abcdefghijklmnopqrstuvwxyz"

LowerChar(c) ==
    IF \E i \in 1..Len(UpperChars) : CharAt(UpperChars, i) = c
    THEN CharAt(LowerChars, CHOOSE i \in 1..Len(UpperChars) : CharAt(UpperChars, i) = c)
    ELSE c

RECURSIVE Lower(_)
\* str.lower()
Lower(s) == IF Len(s) = 0 THEN s
            ELSE LowerChar(CharAt(s, 1)) \o Lower(SubSeq(s, 2, Len(s)))

RECURSIVE RemoveChars(_, _)
\* str.replace(c, '') for every c of chars
RemoveChars(s, chars) ==
    IF Len(s) = 0 THEN s
    ELSE (IF CharAt(s, 1) \in chars THEN "" ELSE CharAt(s, 1))
         \o RemoveChars(SubSeq(s, 2, Len(s)), chars)

Contains(s, c) == \E i \in 1..Len(s) : CharAt(s, i) = c

\* sub in s
HasSubstring(s, sub) ==
    \E i \in 1..(Len(s) - Len(sub) + 1) : SubSeq(s, i, i + Len(sub) - 1) = sub

EndsWith(s, suffix) ==
    Len(s) >= Len(suffix) /\ SubSeq(s, Len(s) - Len(suffix) + 1, Len(s)) = suffix

\* The characters outside ASCII that the program names are written as one sign
\* each, a sign that no file of the model uses otherwise and that, like the
\* character, is left alone by lower() and strip() and sorts after the letters:
\*   "@" U+5DF2  "^" U+53D6  "~" U+6D88   ("@^~" is the status of a cancelled order)
\*   "[" U+95DC  "]" U+9589               ("@[]" is the status of a closed order)
\*   "&" U+9EB5 (noodle)  "%" U+98EF (rice)  "!" U+6EF7  "+" U+8089
\* code-point order of the characters the model uses; others sort after them
Alphabet == " $*,-./0123456789:ABCDEFGHIJKLMNOPQRSTUVWXYZ_abcdefghijklmnopqrstuvwxyz"

Ord(c) == IF \E i \in 1..Len(Alphabet) : CharAt(Alphabet, i) = c
          THEN CHOOSE i \in 1..Len(Alphabet) : CharAt(Alphabet, i) = c
          ELSE Len(Alphabet) + 1

RECURSIVE StrLess(_, _)
\* a < b on Python strings
StrLess(a, b) ==
    IF Len(b) = 0 THEN FALSE
    ELSE IF Len(a) = 0 THEN TRUE
    ELSE IF Ord(CharAt(a, 1)) # Ord(CharAt(b, 1))
         THEN Ord(CharAt(a, 1)) < Ord(CharAt(b, 1))
    ELSE StrLess(SubSeq(a, 2, Len(a)), SubSeq(b, 2, Len(b)))

DigitValue(c) == CHOOSE n \in 0..9 : CharAt("0123456789", n + 1) = c

RECURSIVE ParseNat(_)
\* int(s) for a string of digits
ParseNat(s) == IF Len(s) = 0 THEN 0
               ELSE 10 * ParseNat(SubSeq(s, 1, Len(s) - 1)) + DigitValue(CharAt(s, Len(s)))

RECURSIVE NatStr(_)
\* str(n) for n >= 0
NatStr(n) == IF n < 10 THEN CharAt("0123456789", n + 1)
             ELSE NatStr(n \div 10) \o CharAt("0123456789", (n % 10) + 1)

\* s without a leading minus sign
Unsigned(s) == IF Len(s) > 0 /\ CharAt(s, 1) = "-" THEN SubSeq(s, 2, Len(s)) ELSE s

\* int(s) for an optional minus sign followed by digits
ParseInt(s) == IF Unsigned(s) # s THEN 0 - ParseNat(Unsigned(s)) ELSE ParseNat(s)

\* str(n)
IntStr(n) == IF n < 0 THEN "-" \o NatStr(0 - n) ELSE NatStr(n)

(***************************************************************************)
(* Cells                                                                   *)
(***************************************************************************)
NA == [t |-> "na", v |-> "nan"]        \* NaN / pd.NA
NoneCell == [t |-> "na", v |-> "None"] \* None in an object column
NaT == [t |-> "na", v |-> "NaT"]
PdNA == [t |-> "na", v |-> "<NA>"]     \* pd.NA
Str(s) == [t |-> "str", v |-> s]
IntCell(s) == [t |-> "int", v |-> s]
FloatCell(s) == [t |-> "float", v |-> s]
TsCell(s) == [t |-> "ts", v |-> s]

IsNA(c) == c.t = "na"

\* one value under Series.astype(str)
AsStr(c) == Str(c.v)

(***************************************************************************)
(* Frames                                                                  *)
(***************************************************************************)
EmptyFrame == [cols |-> {}, rows |-> <<>>]

\* pandas computes a value once where it is assigned; the comparison makes the
\* model checker compute v in full here instead of on every later access
Eager(v) == IF v = v THEN v ELSE v

\* DataFrame.empty: no rows or no columns
IsEmpty(f) == Len(f.rows) = 0 \/ f.cols = {}

Cell(row, c) == IF c \in DOMAIN row THEN row[c] ELSE NA

\* a row widened to the columns cols, NaN where it has none
Widen(row, cols) == Eager([c \in cols |-> Cell(row, c)])

RECURSIVE SeqMap(_, _)
SeqMap(Op(_), s) == IF s = <<>> THEN <<>> ELSE <<Op(Head(s))>> \o SeqMap(Op, Tail(s))

RECURSIVE SeqFilter(_, _)
SeqFilter(Keep(_), s) ==
    IF s = <<>> THEN <<>>
    ELSE (IF Keep(Head(s)) THEN <<Head(s)>> ELSE <<>>) \o SeqFilter(Keep, Tail(s))

\* df[mask]
FilterRows(f, Keep(_)) == Eager([cols |-> f.cols, rows |-> SeqFilter(Keep, f.rows)])

\* df[c] = Op(row) for every row (adds the column when it is new)
SetCol(f, c, Op(_)) ==
    LET Upd(row) == Eager([k \in f.cols \cup {c} |-> IF k = c THEN Op(row) ELSE row[k]])
    IN  Eager([cols |-> f.cols \cup {c}, rows |-> SeqMap(Upd, f.rows)])

\* df.drop(columns=[c])
DropCol(f, c) ==
    LET Cut(row) == Eager([k \in f.cols \ {c} |-> row[k]])
    IN  Eager([cols |-> f.cols \ {c}, rows |-> SeqMap(Cut, f.rows)])

\* df[cols]
SelectCols(f, cs) ==
    LET Cut(row) == Eager([k \in cs |-> row[k]])
    IN  Eager([cols |-> cs, rows |-> SeqMap(Cut, f.rows)])

RECURSIVE ConcatCols(_)
ConcatCols(chunks) ==
    IF chunks = <<>> THEN {} ELSE Head(chunks).cols \cup ConcatCols(Tail(chunks))

RECURSIVE ConcatRows(_, _)
ConcatRows(chunks, cols) ==
    IF chunks = <<>> THEN <<>>
    ELSE LET W(row) == Widen(row, cols)
         IN  SeqMap(W, Head(chunks).rows) \o ConcatRows(Tail(chunks), cols)

\* pd.concat(chunks, ignore_index=True)
Concat(chunks) ==
    Eager([cols |-> ConcatCols(chunks), rows |-> ConcatRows(chunks, ConcatCols(chunks))])

\* the values of column c
ColValues(f, c) == {f.rows[i][c] : i \in 1..Len(f.rows)}

(***************************************************************************)
(* config.py.  Names config.py writes in Chinese are given in pinyin: only  *)
(* their equality matters to the loader.                                   *)
(***************************************************************************)
DATA_DIRS == <<"/home/eats365/data", "/home/eats365/upload", "/data",
               "/data/jiaoyi-ziliao", "/cwd/data", "/cwd">>

COLUMN_MAPPING == <<
    <<"order_id", <<"danhao", "dingdan-bianhao", "Order Number", "Order No", "No.">> >>,
    <<"date", <<"riqi", "Date", "Time", "shijian", "jiaoyi-shijian", "fukuan-shijian", "fapiao-riqi">> >>,
    <<"total_amount", <<"zongji", "Total", "Order Total", "jine", "Order Total(TWD)">> >>,
    <<"tax_id", <<"tongyi-bianhao", "Tax ID", "Buyer Tax ID", "maishouren-tongbian">> >>,
    <<"source_id", <<"laiyuan-dingdan-bianhao", "Source ID", "Source Order ID">> >>,
    <<"member_phone", <<"huiyuan-dianhua", "Phone", "Customer Phone", "kehu-dianhua", "Contact">> >>,
    <<"customer_name", <<"kehu-xingming", "Customer Name", "Name", "maishouren-mingcheng">> >>,
    <<"people_count", <<"renshu", "People", "Guest", "Pax", "laike">> >>,
    <<"invoice_id", <<"dianzi-fapiaohao", "fapiao-haoma", "Invoice No", "Invoice Number">> >>,
    <<"carrier_id", <<"zaiju-haoma", "Carrier Number", "Carrier No", "Mobile Carrier", "zaiju", "Carrier">> >>,
    <<"status", <<"zhuangtai", "Status", "Order Status", "fapiao-zhuangtai", "Overall Status">> >>,
    <<"order_type", <<"dan-leixing", "Order Type", "Type">> >>,
    <<"item_name", <<"Item Name", "shangpin-mingcheng", "Product Name">> >>,
    <<"category", <<"Category", "shangpin-leibie", "Product Category">> >>,
    <<"qty", <<"Item Quantity", "shuliang", "Qty", "Quantity">> >>,
    <<"unit_price", <<"Unit Price", "danjia", "Price">> >>,
    <<"item_total", <<"Item Total", "xiaoji", "Subtotal", "Item Amount(TWD)">> >>,
    <<"options", <<"Item Option", "xuanxiang", "Options", "Modifier Name", "Product Note">> >>,
    <<"sku", <<"Product SKU", "SKU", "liaohao">> >>,
    <<"item_type", <<"Item Type", "shangpin-xingtai", "ItemType">> >> >>

(***************************************************************************)
(* pandas.read_csv                                                         *)
(***************************************************************************)
\* texts read_csv turns into NaN
NaValues == {"", "nan", "NaN", "NA", "N/A", "NULL", "null", "None", "n/a", "#N/A"}

IsIntText(s) == IsDigit(Unsigned(s))

IsDecimalText(s) ==
    LET u == Unsigned(s)
    IN  \E i \in 2..(Len(u) - 1) :
            /\ CharAt(u, i) = "."
            /\ IsDigit(SubSeq(u, 1, i - 1))
            /\ IsDigit(SubSeq(u, i + 1, Len(u)))

RECURSIVE DropTrailingZeros(_)
DropTrailingZeros(s) ==
    IF Len(s) > 1 /\ CharAt(s, Len(s)) = "0"
    THEN DropTrailingZeros(SubSeq(s, 1, Len(s) - 1)) ELSE s

\* repr of the float a numeric text parses to
FloatText(s) ==
    LET u == Unsigned(s)
        sign == IF u # s THEN "-" ELSE ""
    IN  IF IsIntText(s) THEN sign \o NatStr(ParseNat(u)) \o ".0"
        ELSE LET i == CHOOSE k \in 2..(Len(u) - 1) : CharAt(u, k) = "."
             IN  sign \o NatStr(ParseNat(SubSeq(u, 1, i - 1))) \o "."
                 \o DropTrailingZeros(SubSeq(u, i + 1, Len(u)))

\* the dtype read_csv infers for a column of texts
InferDtype(texts) ==
    LET present == {i \in 1..Len(texts) : texts[i] \notin NaValues}
    IN  IF present = {} THEN "float"
        ELSE IF \A i \in present : IsIntText(texts[i])
             THEN (IF present = 1..Len(texts) THEN "int" ELSE "float")
        ELSE IF \A i \in present : IsIntText(texts[i]) \/ IsDecimalText(texts[i])
             THEN "float"
        ELSE "object"

\* one text of a column of the inferred dtype
ParseText(s, dtype) ==
    IF s \in NaValues THEN NA
    ELSE IF dtype = "int" THEN IntCell(IntStr(ParseInt(s)))
    ELSE IF dtype = "float" THEN FloatCell(FloatText(s))
    ELSE Str(s)

\* header names as read_csv reports them
HeaderName(header, i) ==
    IF header[i] = "" THEN "Unnamed: " \o NatStr(i - 1) ELSE header[i]

\* pd.read_csv(path, header=h): lines[h+1] is the header, the rest is data
ReadCsv(lines, h) ==
    LET header == lines[h + 1]
        data == SubSeq(lines, h + 2, Len(lines))
        n == Len(header)
        Text(r, i) == IF i <= Len(data[r]) THEN data[r][i] ELSE ""
        Column(i) == Eager([r \in 1..Len(data) |-> Text(r, i)])
        dtype == Eager([i \in 1..n |-> InferDtype(Column(i))])
    IN  Eager([names |-> [i \in 1..n |-> HeaderName(header, i)],
               data |-> [r \in 1..Len(data) |->
                           [i \in 1..n |-> ParseText(Text(r, i), dtype[i])]]])

\* variant: no header is taken for a metadata row
NeverMessy(names) == FALSE

\* UniversalLoader._is_messy_header on the names read_csv reports
IsMessyHeader(names) ==
    \/ Len(names[1]) > 20 /\ \E i \in 1..Len(names[1]) : CharAt(names[1], i) \in Digits
    \/ 2 * Cardinality({i \in 1..Len(names) : HasSubstring(names[i], "Unnamed")})
         > Len(names)

\* the keys of alias_map in _map_columns: alias.lower() of every alias
alias_map ==
    Eager([i \in 1..Len(COLUMN_MAPPING) |->
              [j \in 1..Len(COLUMN_MAPPING[i][2]) |-> Lower(COLUMN_MAPPING[i][2][j])]])

\* alias_map[col.lower()]: the standard name of a column (last entry wins)
AliasTarget(col) ==
    LET low == Lower(col)
        hits == {<<i, j>> \in (1..Len(alias_map)) \X (1..8) :
                    j <= Len(alias_map[i]) /\ alias_map[i][j] = low}
    IN  IF hits = {} THEN col
        ELSE LET last == CHOOSE h \in hits :
                            \A g \in hits : g[1] < h[1] \/ (g[1] = h[1] /\ g[2] <= h[2])
             IN  COLUMN_MAPPING[last[1]][1]

\* df.columns.str.strip(), _map_columns, then the first of equally named columns
MapColumns(csv) ==
    LET n == Len(csv.names)
        renamed == Eager([i \in 1..n |-> AliasTarget(Strip(csv.names[i]))])
        cols == {renamed[i] : i \in 1..n}
        First == Eager([c \in cols |-> CHOOSE i \in 1..n :
                            renamed[i] = c /\ \A j \in 1..(i - 1) : renamed[j] # c])
    IN  Eager([cols |-> cols,
               rows |-> [r \in 1..Len(csv.data) |-> [c \in cols |-> csv.data[r][First[c]]]]])

(***************************************************************************)
(* Per-file cleaners                                                       *)
(***************************************************************************)
InRange(s, lo, hi) == IsDigit(s) /\ ParseNat(s) >= lo /\ ParseNat(s) <= hi

IsTimeText(s) ==
    \/ s = ""
    \/ /\ Len(s) \in {6, 9}
       /\ CharAt(s, 1) = " " /\ CharAt(s, 4) = ":"
       /\ InRange(SubSeq(s, 2, 3), 0, 23) /\ InRange(SubSeq(s, 5, 6), 0, 59)
       /\ Len(s) = 9 => (CharAt(s, 7) = ":" /\ InRange(SubSeq(s, 8, 9), 0, 59))

\* texts pd.to_datetime parses: YYYY-MM-DD or YYYY/MM/DD, then nothing, HH:MM or HH:MM:SS
IsDateText(s) ==
    /\ Len(s) >= 10
    /\ IsDigit(SubSeq(s, 1, 4))
    /\ CharAt(s, 5) \in {"-", "/"} /\ CharAt(s, 8) = CharAt(s, 5)
    /\ InRange(SubSeq(s, 6, 7), 1, 12) /\ InRange(SubSeq(s, 9, 10), 1, 31)
    /\ IsTimeText(SubSeq(s, 11, Len(s)))

\* str(Timestamp) of a text IsDateText accepts
TimestampText(s) ==
    SubSeq(s, 1, 4) \o "-" \o SubSeq(s, 6, 7) \o "-" \o SubSeq(s, 9, 10) \o " "
    \o (IF Len(s) = 10 THEN "00:00:00"
        ELSE IF Len(s) = 16 THEN SubSeq(s, 12, 16) \o ":00"
        ELSE SubSeq(s, 12, 19))

\* pd.to_datetime(value, errors='coerce')
ToDatetime(c) ==
    IF IsNA(c) THEN NaT
    ELSE IF c.t = "ts" THEN c
    ELSE IF c.t \in {"int", "float"} THEN TsCell("1970-01-01 00:00:00")
    ELSE IF IsDateText(Strip(c.v)) THEN TsCell(TimestampText(Strip(c.v)))
    ELSE NaT

\* dt.strftime('%Y%m%d') and dt.strftime('%H%M') of a Timestamp text
StrfDay(v) == SubSeq(v, 1, 4) \o SubSeq(v, 6, 7) \o SubSeq(v, 9, 10)
StrfHourMinute(v) == SubSeq(v, 12, 13) \o SubSeq(v, 15, 16)

\* make_unique_id of _clean_report and of _clean_details
make_unique_id(row) ==
    LET oid == row["order_id"].v
        dt == row["date"]
    IN  IF ~IsNA(dt) /\ IsDigit(oid) /\ Len(oid) <= 4
        THEN Str(StrfDay(dt.v) \o "-" \o oid \o "-" \o StrfHourMinute(dt.v))
        ELSE Str(oid)

\* the order_id block shared by _clean_report and _clean_details
CleanOrderId(f) ==
    IF "order_id" \notin f.cols THEN f
    ELSE LET Norm(row) == Str(Strip(AsStr(row["order_id"]).v))
             NotNan(row) == row["order_id"].v # "nan"
             kept == FilterRows(SetCol(f, "order_id", Norm), NotNan)
         IN  IF "date" \in f.cols THEN SetCol(kept, "order_id", make_unique_id) ELSE kept

CleanDate(f) ==
    IF "date" \notin f.cols THEN f
    ELSE LET Parse(row) == ToDatetime(row["date"]) IN SetCol(f, "date", Parse)

\* the dtype of a column, decided by the cells it holds
ColDtype(f, c) ==
    IF \E i \in 1..Len(f.rows) : f.rows[i][c].t = "str" \/ f.rows[i][c] = NoneCell
    THEN "object"
    ELSE IF \E i \in 1..Len(f.rows) : f.rows[i][c].t \in {"float", "na"} THEN "float"
    ELSE "int"

\* pd.to_numeric(text, errors='coerce') of one text: "" when it does not parse
NumericText(s) ==
    IF IsIntText(s) \/ IsDecimalText(s) THEN s ELSE ""

\* pd.to_numeric(series, errors='coerce').fillna(0), texts first passed through Prep
CoerceNumeric(f, c, Prep(_)) ==
    LET dtype == ColDtype(f, c)
        Txt(row) == IF dtype = "object" THEN NumericText(Prep(AsStr(row[c]).v))
                    ELSE IF IsNA(row[c]) THEN "" ELSE row[c].v
        allInt == \A i \in 1..Len(f.rows) : IsIntText(Txt(f.rows[i]))
        Num(row) == IF allInt THEN IntCell(IntStr(ParseInt(Txt(row))))
                    ELSE IF Txt(row) = "" THEN FloatCell("0.0")
                    ELSE FloatCell(FloatText(Txt(row)))
    IN  SetCol(f, c, Num)

StripCurrency(s) == RemoveChars(s, {"N", "T", "$", ","})
Same(s) == s

\* UniversalLoader._to_numeric applied to column c when the frame has it
ToNumeric(f, c) ==
    IF c \notin f.cols THEN f
    ELSE IF ColDtype(f, c) = "object" THEN CoerceNumeric(f, c, StripCurrency)
    ELSE CoerceNumeric(f, c, Same)

\* pd.to_numeric(df[c], errors='coerce').fillna(0) when the frame has c
ToNumericPlain(f, c) == IF c \notin f.cols THEN f ELSE CoerceNumeric(f, c, Same)

\* invalid_statuses of _clean_report
InvalidReportStatuses ==
    {"@^~", "cancelled", "void", "delete", "deleted", "@[]", "closed"}

\* invalid_statuses of _clean_details
InvalidDetailsStatuses ==
    {"@^~", "cancelled", "void", "yi-tuicai", "tuicai", "@[]", "closed"}

NormalStatus(c) == Str(Lower(Strip(AsStr(c).v)))

\* variant: the status is normalised but no row is dropped
FilterStatusKeepsAll(f, invalid) ==
    IF "status" \notin f.cols THEN f
    ELSE LET Norm(row) == NormalStatus(row["status"]) IN SetCol(f, "status", Norm)

\* the status block of both cleaners
FilterStatus(f, invalid) ==
    IF "status" \notin f.cols THEN f
    ELSE LET Norm(row) == NormalStatus(row["status"])
             Valid(row) == row["status"].v \notin invalid
         IN  FilterRows(SetCol(f, "status", Norm), Valid)

\* UniversalLoader._clean_report
CleanReport(f) ==
    FilterStatus(
        ToNumericPlain(ToNumeric(CleanOrderId(CleanDate(f)), "total_amount"),
                       "people_count"),
        InvalidReportStatuses)

\* UniversalLoader._clean_details
CleanDetails(f) ==
    FilterStatus(
        ToNumericPlain(
            ToNumeric(ToNumeric(CleanOrderId(CleanDate(f)), "item_total"), "unit_price"),
            "qty"),
        InvalidDetailsStatuses)

\* str.replace(r'\.0$', '', regex=True)
DropDotZero(s) == IF EndsWith(s, ".0") THEN SubSeq(s, 1, Len(s) - 2) ELSE s

\* UniversalLoader._clean_invoice
CleanInvoice(f) ==
    LET NormId(row) == Str(Strip(DropDotZero(AsStr(row["invoice_id"]).v)))
        NotNan(row) == row["invoice_id"].v # "nan"
        f1 == IF "invoice_id" \in f.cols
              THEN FilterRows(SetCol(f, "invoice_id", NormId), NotNan) ELSE f
        NormCarrier(row) == Str(Strip(AsStr(row["carrier_id"]).v))
    IN  IF "carrier_id" \in f1.cols THEN SetCol(f1, "carrier_id", NormCarrier) ELSE f1

(***************************************************************************)
(* Classification                                                          *)
(***************************************************************************)
RECURSIVE Basename(_)
\* os.path.basename
Basename(path) ==
    IF Contains(path, "/")
    THEN Basename(SubSeq(path, (CHOOSE i \in 1..Len(path) : CharAt(path, i) = "/") + 1,
                         Len(path)))
    ELSE path

\* UniversalLoader._classify_by_filename ("fapiao" is the Chinese word for invoice)
ClassifyByFilename(filename) ==
    LET fn == Lower(filename)
    IN  IF HasSubstring(fn, "transaction report") THEN "details"
        ELSE IF HasSubstring(fn, "history_report") THEN "report"
        ELSE IF HasSubstring(fn, "undefined") THEN "none"
        ELSE IF HasSubstring(fn, "fapiao") \/ HasSubstring(fn, "invoice") THEN "invoice"
        ELSE "none"

\* UniversalLoader._is_report
IsReport(f) == "order_id" \in f.cols /\ "total_amount" \in f.cols

\* UniversalLoader._is_details
IsDetails(f, filename) ==
    \/ HasSubstring(Lower(filename), "transaction report")
       /\ ~HasSubstring(Lower(filename), "undefined")
    \/ "item_name" \in f.cols
    \/ \E j \in 1..Len(COLUMN_MAPPING[13][2]) : COLUMN_MAPPING[13][2][j] \in f.cols

\* a variant that takes every frame with an invoice_id for an invoice
IsInvoiceLoose(f) == "invoice_id" \in f.cols

\* UniversalLoader._is_invoice
IsInvoice(f) == "invoice_id" \in f.cols /\ "order_id" \notin f.cols

\* a variant that looks for a report before it looks for details
ClassifyReportFirst(f, filename) ==
    IF ClassifyByFilename(filename) # "none" THEN ClassifyByFilename(filename)
    ELSE IF IsReport(f) THEN "report"
    ELSE IF IsDetails(f, filename) THEN "details"
    ELSE IF IsInvoice(f) THEN "invoice"
    ELSE "none"

\* the frame type _process_file settles on for a CSV
Classify(f, filename) ==
    IF ClassifyByFilename(filename) # "none" THEN ClassifyByFilename(filename)
    ELSE IF IsDetails(f, filename) THEN "details"
    ELSE IF IsReport(f) THEN "report"
    ELSE IF IsInvoice(f) THEN "invoice"
    ELSE "none"

(***************************************************************************)
(* JSON API dumps                                                          *)
(***************************************************************************)
RECURSIVE JoinComma(_)
\* ', '.join(parts)
JoinComma(parts) ==
    IF parts = <<>> THEN ""
    ELSE IF Len(parts) = 1 THEN parts[1]
    ELSE parts[1] \o ", " \o JoinComma(Tail(parts))

\* s[-6:]
LastSix(s) == IF Len(s) <= 6 THEN s ELSE SubSeq(s, Len(s) - 5, Len(s))

\* order_id of one JSON order; created_at is the order's local time, "" when absent
JsonOrderId(order) ==
    LET oid == IF order.short_code # "" THEN order.short_code ELSE LastSix(order.id)
    IN  IF order.created_at # "" /\ IsDigit(oid) /\ Len(oid) <= 4
        THEN StrfDay(order.created_at) \o "-" \o oid \o "-" \o StrfHourMinute(order.created_at)
        ELSE oid

JsonDate(order) == IF order.created_at # "" THEN Str(order.created_at) ELSE NaT

JsonOrderType(raw) ==
    IF raw = "dine_in" THEN "nei-yong"
    ELSE IF raw = "takeout" THEN "wai-dai"
    ELSE IF raw = "delivery" THEN "wai-song"
    ELSE IF raw = "pick_up" THEN "zi-qu"
    ELSE raw

JsonReportCols ==
    {"order_id", "date", "total_amount", "status", "order_type", "people_count",
     "payment_method", "member_phone", "customer_name", "invoice_id", "data_source"}

JsonDetailsCols ==
    {"order_id", "date", "status", "item_name", "sku", "qty", "unit_price",
     "item_total", "options", "item_type", "data_source"}

\* report_row of _process_json_file
JsonReportRow(order) ==
    Eager([c \in JsonReportCols |->
        CASE c = "order_id" -> Str(JsonOrderId(order))
          [] c = "date" -> JsonDate(order)
          [] c = "total_amount" -> IntCell(NatStr(order.total_price))
          [] c = "status" -> Str(order.status)
          [] c = "order_type" -> Str(JsonOrderType(order.type))
          [] c = "people_count" -> IntCell(NatStr(order.party_size))
          [] c = "payment_method" -> Str(order.payment)
          [] c = "member_phone" -> Str(order.phone)
          [] c = "customer_name" -> Str(order.first_name)
          [] c = "invoice_id" -> Str(order.invoice_number)
          [] OTHER -> Str("json")])

\* details_row / b_details_row of _process_json_file
JsonDetailsRow(order, item, qty, item_type) ==
    Eager([c \in JsonDetailsCols |->
        CASE c = "order_id" -> Str(JsonOrderId(order))
          [] c = "date" -> JsonDate(order)
          [] c = "status" -> Str(order.status)
          [] c = "item_name" -> Str(item.product_name)
          [] c = "sku" -> Str(item.product_code)
          [] c = "qty" -> IntCell(NatStr(qty))
          [] c = "unit_price" -> IntCell(NatStr(item.price))
          [] c = "item_total" -> IntCell(NatStr(item.price_total))
          [] c = "options" -> Str(JoinComma(item.modifiers))
          [] c = "item_type" -> Str(item_type)
          [] OTHER -> Str("json")])

RECURSIVE JsonBundledRows(_, _, _)
JsonBundledRows(order, item, bundled) ==
    IF bundled = <<>> THEN <<>>
    ELSE <<JsonDetailsRow(order, Head(bundled), Head(bundled).quantity * item.quantity,
                          "Combo Item")>>
         \o JsonBundledRows(order, item, Tail(bundled))

RECURSIVE JsonItemRows(_, _)
JsonItemRows(order, items) ==
    IF items = <<>> THEN <<>>
    ELSE <<JsonDetailsRow(order, Head(items), Head(items).quantity,
                          IF Head(items).is_combo THEN "Combo Item" ELSE "Normal")>>
         \o JsonBundledRows(order, Head(items), Head(items).bundled)
         \o JsonItemRows(order, Tail(items))

\* only COMPLETED orders are processed
JsonAdmitted(order) == order.status = "COMPLETED"

RECURSIVE JsonReportList(_)
JsonReportList(orders) ==
    IF orders = <<>> THEN <<>>
    ELSE (IF JsonAdmitted(Head(orders)) THEN <<JsonReportRow(Head(orders))>> ELSE <<>>)
         \o JsonReportList(Tail(orders))

RECURSIVE JsonDetailsList(_)
JsonDetailsList(orders) ==
    IF orders = <<>> THEN <<>>
    ELSE (IF JsonAdmitted(Head(orders))
          THEN JsonItemRows(Head(orders), Head(orders).line_items) ELSE <<>>)
         \o JsonDetailsList(Tail(orders))

(***************************************************************************)
(* The walk over DATA_DIRS                                                 *)
(***************************************************************************)
StartsWith(s, prefix) == Len(s) >= Len(prefix) /\ SubSeq(s, 1, Len(prefix)) = prefix

Under(path, root) == StartsWith(path, root \o "/")

\* the extensions the walk keeps; a directory whose name starts with "." is skipped
IsCandidate(path) ==
    /\ EndsWith(path, ".csv") \/ EndsWith(path, ".json") \/ EndsWith(path, ".txt")
    /\ ~HasSubstring(SubSeq(path, 1, Len(path) - Len(Basename(path)) - 1), "/.")

RECURSIVE WalkRoot(_, _)
\* the candidate paths below one root, in directory order
WalkRoot(files, root) ==
    IF files = <<>> THEN <<>>
    ELSE (IF Under(Head(files).path, root) /\ IsCandidate(Head(files).path)
          THEN <<Head(files).path>> ELSE <<>>)
         \o WalkRoot(Tail(files), root)

RECURSIVE WalkAll(_, _)
\* raw_files_to_process: a path below two configured roots is listed twice
WalkAll(files, roots) ==
    IF roots = <<>> THEN <<>>
    ELSE WalkRoot(files, Head(roots)) \o WalkAll(files, Tail(roots))

FileAt(files, path) == files[CHOOSE i \in 1..Len(files) : files[i].path = path]

Max(S) == IF S = {} THEN 0 ELSE CHOOSE m \in S : \A x \in S : x <= m
Min(S) == CHOOSE m \in S : \A x \in S : m <= x

\* newest_raw_mtime
NewestRawMtime(files) ==
    LET walked == WalkAll(files, DATA_DIRS)
    IN  Max({FileAt(files, walked[i]).mtime : i \in 1..Len(walked)})

\* a root with nothing below it is taken not to exist
MissingRoots(files) ==
    SelectSeq(DATA_DIRS, LAMBDA r : ~\E i \in 1..Len(files) : Under(files[i].path, r))

(***************************************************************************)
(* pandas operations used by _merge_data                                   *)
(***************************************************************************)
\* equality of key values: missing values equal each other
KeyEq(a, b) == (IsNA(a) /\ IsNA(b)) \/ a = b

SameKeys(r1, r2, keys) == \A k \in keys : KeyEq(r1[k], r2[k])

\* df.drop_duplicates(subset=keys, keep='first')
DropDuplicatesFirst(f, keys) ==
    Eager([cols |-> f.cols,
     rows |-> LET idx == {i \in 1..Len(f.rows) :
                            \A j \in 1..(i - 1) : ~SameKeys(f.rows[j], f.rows[i], keys)}
                  kept == SelectSeq([i \in 1..Len(f.rows) |-> i], LAMBDA i : i \in idx)
              IN  [n \in 1..Len(kept) |-> f.rows[kept[n]]]])

\* df.drop_duplicates(subset=keys, keep='last')
DropDuplicatesLast(f, keys) ==
    Eager([cols |-> f.cols,
     rows |-> LET idx == {i \in 1..Len(f.rows) :
                            \A j \in (i + 1)..Len(f.rows) :
                                ~SameKeys(f.rows[j], f.rows[i], keys)}
                  kept == SelectSeq([i \in 1..Len(f.rows) |-> i], LAMBDA i : i \in idx)
              IN  [n \in 1..Len(kept) |-> f.rows[kept[n]]]])

\* a sorts strictly before b in an ascending column; missing values sort last
CellLess(a, b) == ~IsNA(a) /\ (IsNA(b) \/ StrLess(a.v, b.v))

\* a sorts strictly before b in a descending column; missing values still sort last
CellGreater(a, b) == ~IsNA(a) /\ (IsNA(b) \/ StrLess(b.v, a.v))

\* variant: data_source ascending, which puts csv rows before json rows
ReportBeforeCsvFirst(r1, r2) ==
    \/ CellLess(r1["order_id"], r2["order_id"])
    \/ /\ ~CellLess(r2["order_id"], r1["order_id"])
       /\ CellLess(r1["data_source"], r2["data_source"])

\* order of sort_values(by=['order_id', 'data_source'], ascending=[True, False])
ReportBefore(r1, r2) ==
    \/ CellLess(r1["order_id"], r2["order_id"])
    \/ /\ ~CellLess(r2["order_id"], r1["order_id"])
       /\ CellGreater(r1["data_source"], r2["data_source"])

RECURSIVE InsertSorted(_, _, _)
\* row placed after every row that does not sort strictly after it (stable)
InsertSorted(Before(_, _), row, sorted) ==
    IF sorted = <<>> THEN <<row>>
    ELSE IF Before(row, Head(sorted)) THEN <<row>> \o sorted
    ELSE <<Head(sorted)>> \o InsertSorted(Before, row, Tail(sorted))

RECURSIVE StableSort(_, _)
StableSort(Before(_, _), rows) ==
    IF rows = <<>> THEN <<>>
    ELSE InsertSorted(Before, rows[Len(rows)],
                      StableSort(Before, SubSeq(rows, 1, Len(rows) - 1)))

\* the name a right-hand column gets in pd.merge(..., suffixes=('', suffix))
MergedName(c, leftCols, suffix) == IF c \in leftCols THEN c \o suffix ELSE c

\* pd.merge(left, right, on=key, how='left', suffixes=('', suffix))
LeftMerge(left, right, key, suffix) ==
    LET extra == right.cols \ {key}
        cols == left.cols \cup {MergedName(c, left.cols, suffix) : c \in extra}
        Source == Eager([n \in cols \ left.cols |->
                            CHOOSE c \in extra : MergedName(c, left.cols, suffix) = n])
        Joined(l, r) == Eager([n \in cols |-> IF n \in left.cols THEN l[n] ELSE r[Source[n]]])
        Alone(l) == Eager([n \in cols |-> IF n \in left.cols THEN l[n] ELSE NA])
        Matches(l) == SelectSeq(right.rows, LAMBDA r : KeyEq(l[key], r[key]))
        Pairs(l, found) == IF found = <<>> THEN <<Alone(l)>>
                           ELSE Eager([m \in 1..Len(found) |-> Joined(l, found[m])])
        Out(l) == Pairs(l, Matches(l))
        RECURSIVE All(_)
        All(rows) == IF rows = <<>> THEN <<>> ELSE Out(Head(rows)) \o All(Tail(rows))
    IN  Eager([cols |-> cols, rows |-> All(left.rows)])

\* value.replace({'': pd.NA, 'nan': pd.NA})
ReplaceEmpty(c) == IF c.t = "str" /\ c.v \in {"", "nan"} THEN PdNA ELSE c

\* series.fillna(other)
FillNa(c, other) == IF IsNA(c) THEN other ELSE c

\* df[c] = df[c].fillna('csv'), or the constant 'csv' when the column is new
FillDataSource(f) ==
    LET Src(row) == IF "data_source" \in f.cols THEN FillNa(row["data_source"], Str("csv"))
                    ELSE Str("csv")
    IN  SetCol(f, "data_source", Src)

IsJsonRow(row) == row["data_source"] = Str("json")
IsCsvRow(row) == row["data_source"] = Str("csv")

(***************************************************************************)
(* UniversalLoader._merge_data                                             *)
(***************************************************************************)
\* variant: the invoice chunks concatenated and left with their duplicates
InvoiceLookupKeepsAll(chunks) ==
    IF chunks = <<>> THEN EmptyFrame
    ELSE LET all == Concat(chunks)
         IN  IF "date" \in all.cols THEN CleanDate(all) ELSE all

\* 1. invoice_lookup: one row per invoice_id, the last one loaded
InvoiceLookup(chunks) ==
    IF chunks = <<>> THEN EmptyFrame
    ELSE LET all == Concat(chunks)
             dated == IF "date" \in all.cols THEN CleanDate(all) ELSE all
         IN  IF "invoice_id" \in dated.cols
             THEN DropDuplicatesLast(dated, {"invoice_id"}) ELSE dated

\* the sort that puts the json row of an order_id before its csv rows
SortReport(f) == Eager([cols |-> f.cols, rows |-> StableSort(ReportBefore, f.rows)])

\* cols_to_preserve without order_id
PreservedCols(f) == {"member_phone", "customer_name"} \cap f.cols

\* csv_members: per order_id the first csv row that carries a phone or a name
CsvMembers(sorted) ==
    IF PreservedCols(sorted) = {} THEN EmptyFrame
    ELSE LET picked == SelectCols(FilterRows(sorted, IsCsvRow),
                                  {"order_id"} \cup PreservedCols(sorted))
             Clean(row) == Eager([c \in picked.cols |-> ReplaceEmpty(row[c])])
             Carries(row) == \E c \in PreservedCols(sorted) : ~IsNA(row[c])
             lookup == FilterRows([cols |-> picked.cols, rows |-> SeqMap(Clean, picked.rows)],
                                  Carries)
         IN  DropDuplicatesFirst(lookup, {"order_id"})

\* final_report.drop_duplicates(subset=['order_id'], keep='first')
DedupReport(sorted) == DropDuplicatesFirst(sorted, {"order_id"})

\* one preserved column coalesced from its _csv twin, which is then dropped
Coalesce(f, c, twin) ==
    IF c \in f.cols /\ twin \in f.cols
    THEN LET Fill(row) == FillNa(ReplaceEmpty(row[c]), row[twin])
         IN  DropCol(SetCol(f, c, Fill), twin)
    ELSE f

\* the surviving rows back-filled from csv_members
ApplyCsvMembers(deduped, members) ==
    IF IsEmpty(members) THEN deduped
    ELSE Coalesce(Coalesce(LeftMerge(deduped, members, "order_id", "_csv"),
                           "member_phone", "member_phone_csv"),
                  "customer_name", "customer_name_csv")

\* 2. the report chunks consolidated, json first, csv member data preserved
ConsolidateReport(chunks) ==
    LET all == FillDataSource(Concat(chunks))
    IN  IF "order_id" \in all.cols
        THEN LET sorted == SortReport(all)
             IN  ApplyCsvMembers(DedupReport(sorted), CsvMembers(sorted))
        ELSE DropDuplicatesFirst(all, all.cols)

\* whether the invoice join is attempted
JoinsInvoice(report, lookup) ==
    ~IsEmpty(lookup) /\ "invoice_id" \in report.cols /\ "invoice_id" \in lookup.cols

\* a variant in which the carrier_id of the invoice replaces that of the report
JoinInvoiceOverwrites(report, lookup) ==
    IF JoinsInvoice(report, lookup)
    THEN LET subset == SelectCols(lookup, {"invoice_id", "carrier_id", "tax_id"} \cap lookup.cols)
             merged == LeftMerge(report, subset, "invoice_id", "_inv")
         IN  IF "carrier_id" \in merged.cols /\ "carrier_id_inv" \in merged.cols
             THEN LET Fill(row) == FillNa(row["carrier_id_inv"], row["carrier_id"])
                  IN  DropCol(SetCol(merged, "carrier_id", Fill), "carrier_id_inv")
             ELSE merged
    ELSE report

\* the invoice columns joined onto the report
JoinInvoice(report, lookup) ==
    IF JoinsInvoice(report, lookup)
    THEN LET subset == SelectCols(lookup, {"invoice_id", "carrier_id", "tax_id"} \cap lookup.cols)
             merged == LeftMerge(report, subset, "invoice_id", "_inv")
         IN  IF "carrier_id" \in merged.cols /\ "carrier_id_inv" \in merged.cols
             THEN LET Fill(row) == FillNa(row["carrier_id"], row["carrier_id_inv"])
                  IN  DropCol(SetCol(merged, "carrier_id", Fill), "carrier_id_inv")
             ELSE merged
    ELSE report

\* pd.merge raises ValueError when the report's invoice_id column is numeric (blank
\* or all-digit in every CSV) and the lookup's holds strings, as _clean_invoice
\* leaves it; nothing in _merge_data or scan_and_load catches it
MergeRaises(reports, invoices) ==
    /\ reports # <<>>
    /\ LET report == ConsolidateReport(reports)
           lookup == InvoiceLookup(invoices)
       IN  /\ JoinsInvoice(report, lookup)
           /\ Len(report.rows) > 0 /\ Len(lookup.rows) > 0
           /\ ColDtype(report, "invoice_id") # "object"
           /\ ColDtype(lookup, "invoice_id") = "object"

\* final_report
MergeReport(reports, invoices) ==
    IF reports = <<>> THEN EmptyFrame
    ELSE JoinInvoice(ConsolidateReport(reports), InvoiceLookup(invoices))

\* the detail rows of orders of the final report
FilterToReport(details, report) ==
    LET valid == {AsStr(report.rows[i]["order_id"]).v : i \in 1..Len(report.rows)}
        Known(row) == AsStr(row["order_id"]).v \in valid
    IN  FilterRows(details, Known)

\* variant: every detail row of a report order is kept, whatever its source
KeepCsvUnderJson(details) == details

\* the csv detail rows of an order that has json detail rows are dropped
DropCsvUnderJson(details) ==
    LET json_ids == {AsStr(details.rows[i]["order_id"]).v :
                        i \in {k \in 1..Len(details.rows) : IsJsonRow(details.rows[k])}}
        Keep(row) == IsJsonRow(row) \/ AsStr(row["order_id"]).v \notin json_ids
    IN  FilterRows(details, Keep)

\* 3. final_details
MergeDetails(chunks, report) ==
    IF chunks = <<>> THEN EmptyFrame
    ELSE LET all == FillDataSource(Concat(chunks))
         IN  IF ~IsEmpty(report) /\ "order_id" \in report.cols /\ "order_id" \in all.cols
             THEN DropCsvUnderJson(FilterToReport(all, report))
             ELSE all

\* max of a date column as '%Y-%m-%d', "no-data" when there is none
LatestDate(f, Pick(_)) ==
    LET stamps == {ToDatetime(f.rows[i]["date"]).v :
                     i \in {k \in 1..Len(f.rows) :
                              Pick(f.rows[k]) /\ ~IsNA(ToDatetime(f.rows[k]["date"]))}}
    IN  IF "date" \notin f.cols \/ stamps = {} THEN "no-data"
        ELSE SubSeq(CHOOSE m \in stamps : \A x \in stamps : ~StrLess(m, x), 1, 10)

AnyRow(row) == TRUE

\* self.latest_dates as _merge_data leaves it
MergeLatestDates(reports, invoices, details) ==
    [json |-> IF reports = <<>> THEN "no-data"
              ELSE LatestDate(FillDataSource(Concat(reports)), IsJsonRow),
     csv_report |-> IF reports = <<>> THEN "no-data"
                    ELSE LatestDate(FillDataSource(Concat(reports)), IsCsvRow),
     csv_details |-> IF details = <<>> THEN "no-data"
                     ELSE LatestDate(FillDataSource(Concat(details)), IsCsvRow),
     invoice |-> IF invoices = <<>> THEN "no-data"
                 ELSE LatestDate(Concat(invoices), AnyRow)]

(***************************************************************************)
(* UniversalLoader._process_file                                           *)
(***************************************************************************)
IsJsonPath(path) ==
    \/ EndsWith(path, ".json")
    \/ HasSubstring(path, "OperationReport") /\ EndsWith(path, ".txt")

JsonFrame(cols, rows) == IF rows = <<>> THEN <<>> ELSE <<[cols |-> cols, rows |-> rows]>>

Log(event, file) == [event |-> event, file |-> file]

Outcome(report, details, invoice, logs) ==
    [report |-> report, details |-> details, invoice |-> invoice, logs |-> logs]

\* _process_json_file: what it appends to report_data, details_data and debug_logs.
\* A file whose text json.load rejects keeps that text in lines and has no orders.
ProcessJsonFile(file) ==
    LET name == Basename(file.path)
        report == JsonFrame(JsonReportCols, JsonReportList(file.orders))
        details == JsonFrame(JsonDetailsCols, JsonDetailsList(file.orders))
    IN  IF file.lines # <<>> THEN Outcome(<<>>, <<>>, <<>>, <<Log("error", name)>>)
        ELSE Outcome(report, details, <<>>,
                     IF file.orders = <<>> THEN <<Log("json-no-orders", name)>>
                     ELSE (IF report # <<>> THEN <<Log("loaded-report", name)>> ELSE <<>>)
                          \o (IF details # <<>> THEN <<Log("loaded-details", name)>>
                              ELSE <<>>))

\* the CSV branch once the frame is read, mapped and classified
ProcessFrame(frame, type, messy, name) ==
    Outcome(IF type = "report" THEN <<CleanReport(frame)>> ELSE <<>>,
            IF type = "details" THEN <<CleanDetails(frame)>> ELSE <<>>,
            IF type = "invoice" THEN <<CleanInvoice(frame)>> ELSE <<>>,
            (IF messy THEN <<Log("messy-header", name)>> ELSE <<>>)
            \o <<Log(IF type = "none" THEN "skipped" ELSE "loaded-" \o type, name)>>)

\* the CSV branch after the first read_csv; the second read raises on a file
\* with no line after the messy one
ProcessCsv(file, first, messy, name) ==
    IF messy /\ Len(file.lines) < 2 THEN Outcome(<<>>, <<>>, <<>>, <<Log("error", name)>>)
    ELSE LET frame == MapColumns(IF messy THEN ReadCsv(file.lines, 1) ELSE first)
         IN  ProcessFrame(frame, Classify(frame, name), messy, name)

\* variant: the exception of read_csv is swallowed without a log line
ProcessOneSilent(file) ==
    IF IsJsonPath(file.path) THEN ProcessJsonFile(file)
    ELSE IF Len(file.lines) < 1 THEN Outcome(<<>>, <<>>, <<>>, <<>>)
    ELSE LET first == ReadCsv(file.lines, 0)
         IN  ProcessCsv(file, first, IsMessyHeader(first.names), Basename(file.path))

\* UniversalLoader._process_file: what one file adds to the accumulators; read_csv
\* raises on a file without a header line and the error is logged
ProcessOne(file) ==
    IF IsJsonPath(file.path) THEN ProcessJsonFile(file)
    ELSE IF Len(file.lines) < 1
         THEN Outcome(<<>>, <<>>, <<>>, <<Log("error", Basename(file.path))>>)
    ELSE LET first == ReadCsv(file.lines, 0)
         IN  ProcessCsv(file, first, IsMessyHeader(first.names), Basename(file.path))

ReportChunks(file) == ProcessOne(file).report
DetailsChunks(file) == ProcessOne(file).details
InvoiceChunks(file) == ProcessOne(file).invoice
FileLogs(file) == ProcessOne(file).logs

(***************************************************************************)
(* UniversalLoader.scan_and_load                                           *)
(***************************************************************************)
NoFile == [exists |-> FALSE, mtime |-> 0, frame |-> EmptyFrame]

\* self.latest_dates before _merge_data has assigned it: the mapping without keys
\* stands for the attribute the object does not have
NoAttribute == <<>>

\* df.astype(str)
AsTypeStr(f) ==
    Eager([cols |-> f.cols,
           rows |-> LET Cast(row) == [c \in f.cols |-> AsStr(row[c])]
                    IN  SeqMap(Cast, f.rows)])

\* a parquet file written at time now
Written(f, now) == [exists |-> TRUE, mtime |-> now, frame |-> AsTypeStr(f)]

\* variant: a cache exactly as old as the newest raw file counts as stale
CacheValidStrict(c, files) ==
    /\ c.report.exists /\ c.details.exists
    /\ Min({c.report.mtime, c.details.mtime}) > NewestRawMtime(files)

\* "2. Check Parquet Cache validity"
CacheValid(c, files) ==
    /\ c.report.exists /\ c.details.exists
    /\ Min({c.report.mtime, c.details.mtime}) >= NewestRawMtime(files)

MissingLogs(files) ==
    LET roots == MissingRoots(files)
    IN  Eager([i \in 1..Len(roots) |-> Log("missing-directory", roots[i])])

Result(via, report, details, logs) ==
    [via |-> via, report |-> report, details |-> details, logs |-> logs]

\* lines 20-60 up to the cache decision: the walk and the validity check
Begin ==
    /\ pc = "idle"
    /\ raw_files_to_process' = WalkAll(disk, DATA_DIRS)
    /\ todo' = 1
    /\ IF CacheValid(cache, disk)
       THEN /\ pc' = "read_cache"
            /\ debug_logs' = debug_logs \o MissingLogs(disk) \o <<Log("cache-hit", "")>>
            /\ UNCHANGED <<report_data, invoice_data, details_data, seen_files>>
       ELSE /\ pc' = "parse"
            /\ debug_logs' = debug_logs \o MissingLogs(disk) \o <<Log("cache-miss", "")>>
            /\ report_data' = <<>>
            /\ invoice_data' = <<>>
            /\ details_data' = <<>>
            /\ seen_files' = {}
    /\ UNCHANGED <<disk, clock, cache, df_report, df_details, latest_dates, returned,
                   enriched>>

\* both pd.read_parquet calls succeed: the cached frames are returned
ReadCacheOk ==
    /\ pc = "read_cache"
    /\ pc' = "done"
    /\ df_report' = cache.report.frame
    /\ df_details' = cache.details.frame
    /\ debug_logs' = debug_logs \o <<Log("cache-loaded", "")>>
    /\ returned' = Append(returned, Result("cache", cache.report.frame,
                                           cache.details.frame, debug_logs'))
    /\ UNCHANGED <<disk, clock, cache, raw_files_to_process, todo, seen_files,
                   report_data, invoice_data, details_data, latest_dates, enriched>>

\* a pd.read_parquet call raises: logged, then the raw parse starts
ReadCacheFail ==
    /\ pc = "read_cache"
    /\ pc' = "parse"
    /\ debug_logs' = debug_logs \o <<Log("cache-load-failed", ""), Log("cache-miss", "")>>
    /\ report_data' = <<>>
    /\ invoice_data' = <<>>
    /\ details_data' = <<>>
    /\ seen_files' = {}
    /\ UNCHANGED <<disk, clock, cache, raw_files_to_process, todo, df_report, df_details,
                   latest_dates, returned, enriched>>

\* variant: a path is processed every time the walk lists it
ProcessFileAgain ==
    /\ pc = "parse"
    /\ todo <= Len(raw_files_to_process)
    /\ todo' = todo + 1
    /\ LET out == Eager(ProcessOne(FileAt(disk, raw_files_to_process[todo])))
       IN  /\ seen_files' = seen_files \cup {raw_files_to_process[todo]}
           /\ report_data' = report_data \o out.report
           /\ details_data' = details_data \o out.details
           /\ invoice_data' = invoice_data \o out.invoice
           /\ debug_logs' = debug_logs \o out.logs
    /\ UNCHANGED <<disk, clock, cache, pc, raw_files_to_process, df_report, df_details,
                   latest_dates, returned, enriched>>

\* one turn of "for full_path in raw_files_to_process"
ProcessFile ==
    /\ pc = "parse"
    /\ todo <= Len(raw_files_to_process)
    /\ todo' = todo + 1
    /\ LET path == raw_files_to_process[todo]
           out == Eager(ProcessOne(FileAt(disk, path)))
       IN  IF path \in seen_files
           THEN UNCHANGED <<seen_files, report_data, details_data, invoice_data, debug_logs>>
           ELSE /\ seen_files' = seen_files \cup {path}
                /\ report_data' = report_data \o out.report
                /\ details_data' = details_data \o out.details
                /\ invoice_data' = invoice_data \o out.invoice
                /\ debug_logs' = debug_logs \o out.logs
    /\ UNCHANGED <<disk, clock, cache, pc, raw_files_to_process, df_report, df_details,
                   latest_dates, returned, enriched>>

\* self._merge_data() raises out of scan_and_load: the call returns nothing and
\* latest_dates keeps what was computed before the join
MergeDataRaises ==
    /\ pc = "parse"
    /\ todo > Len(raw_files_to_process)
    /\ MergeRaises(report_data, invoice_data)
    /\ pc' = "done"
    /\ latest_dates' = [MergeLatestDates(report_data, invoice_data, details_data)
                          EXCEPT !.csv_details = "no-data"]
    /\ debug_logs' = debug_logs \o <<Log("consolidated", "")>>
    /\ returned' = Append(returned, Result("raised", EmptyFrame, EmptyFrame, debug_logs'))
    /\ UNCHANGED <<disk, clock, cache, raw_files_to_process, todo, seen_files,
                   report_data, invoice_data, details_data, df_report, df_details,
                   enriched>>

\* df_report, df_details, logs = self._merge_data()
MergeData ==
    /\ pc = "parse"
    /\ todo > Len(raw_files_to_process)
    /\ ~MergeRaises(report_data, invoice_data)
    /\ pc' = "save"
    /\ df_report' = Eager(MergeReport(report_data, invoice_data))
    /\ df_details' = Eager(MergeDetails(details_data, df_report'))
    /\ latest_dates' = MergeLatestDates(report_data, invoice_data, details_data)
    /\ debug_logs' = debug_logs \o <<Log("merged", "")>>
    /\ UNCHANGED <<disk, clock, cache, raw_files_to_process, todo, seen_files,
                   report_data, invoice_data, details_data, returned, enriched>>

\* both to_parquet calls succeed
SaveCacheOk ==
    /\ pc = "save"
    /\ pc' = "done"
    /\ cache' = [report |-> Written(df_report, clock), details |-> Written(df_details, clock)]
    /\ debug_logs' = debug_logs \o <<Log("cache-saved", "")>>
    /\ returned' = Append(returned, Result("raw", df_report, df_details, debug_logs'))
    /\ UNCHANGED <<disk, clock, raw_files_to_process, todo, seen_files, report_data,
                   invoice_data, details_data, df_report, df_details, latest_dates,
                   enriched>>

\* variant: the exception of the cast or of to_parquet leaves scan_and_load
SaveCacheFailPropagates ==
    /\ pc = "save"
    /\ pc' = "done"
    /\ debug_logs' = debug_logs
    /\ returned' = Append(returned, Result("raised", EmptyFrame, EmptyFrame, debug_logs))
    /\ UNCHANGED <<disk, clock, cache, raw_files_to_process, todo, seen_files, report_data,
                   invoice_data, details_data, df_report, df_details, latest_dates,
                   enriched>>

\* the cast or a to_parquet call raises: before anything is written, or after the
\* report file is written
SaveCacheFail ==
    /\ pc = "save"
    /\ pc' = "done"
    /\ \E reportWritten \in BOOLEAN :
          cache' = IF reportWritten
                   THEN [cache EXCEPT !.report = Written(df_report, clock)]
                   ELSE cache
    /\ debug_logs' = debug_logs \o <<Log("cache-save-failed", "")>>
    /\ returned' = Append(returned, Result("raw", df_report, df_details, debug_logs'))
    /\ UNCHANGED <<disk, clock, raw_files_to_process, todo, seen_files, report_data,
                   invoice_data, details_data, df_report, df_details, latest_dates,
                   enriched>>

(***************************************************************************)
(* UniversalLoader.enrich_data: Date_Parsed and the member identity of the *)
(* report.  Day_Type, Period and Order_Category read and write none of the *)
(* columns modelled here.                                                  *)
(***************************************************************************)
known_platforms == {"55941277", "77519126"}

\* str(value).strip().replace(' ', '') of a row's member_phone
PhoneText(row) == RemoveChars(Strip(AsStr(row["member_phone"]).v), {" "})

\* the columns enrich_data creates as None when the report lacks them
EnsureColumns(f) ==
    LET Fill(row) == Eager([c \in f.cols \cup {"member_phone", "carrier_id", "customer_name"} |->
                               IF c \in f.cols THEN row[c] ELSE NoneCell])
    IN  Eager([cols |-> f.cols \cup {"member_phone", "carrier_id", "customer_name"},
               rows |-> SeqMap(Fill, f.rows)])

\* df_report['Date_Parsed'] = pd.to_datetime(df_report['date'], errors='coerce')
ParseDates(f) ==
    IF "date" \notin f.cols THEN f
    ELSE LET Parse(row) == ToDatetime(row["date"]) IN SetCol(f, "Date_Parsed", Parse)

\* valid_mask: the rows whose phone is counted when looking for shared phones
CountedPhone(row) ==
    /\ Len(PhoneText(row)) >= 6
    /\ ~Contains(PhoneText(row), "*")
    /\ PhoneText(row) # "nan"

\* shared_phones_auto: phones seen with at least ten distinct customer names
shared_phones_auto(f) ==
    LET Names(p) == {f.rows[i]["customer_name"] :
                        i \in {k \in 1..Len(f.rows) :
                                 /\ CountedPhone(f.rows[k])
                                 /\ PhoneText(f.rows[k]) = p
                                 /\ ~IsNA(f.rows[k]["customer_name"])}}
    IN  {p \in {PhoneText(f.rows[i]) : i \in {k \in 1..Len(f.rows) : CountedPhone(f.rows[k])}} :
           Cardinality(Names(p)) >= 10}

platform_phones(f) == shared_phones_auto(f) \cup known_platforms

\* a variant that knows a hardcoded number only when it is the whole phone
IsPlatformExact(p, platform) == p \in platform

\* (p in platform_phones) or any(k in p for k in known_platforms)
IsPlatform(p, platform) == p \in platform \/ \E k \in known_platforms : HasSubstring(p, k)

\* valid_phone_mask
ValidPhone(row, platform) ==
    /\ Len(PhoneText(row)) > 6
    /\ ~Contains(PhoneText(row), "*")
    /\ PhoneText(row) # "nan"
    /\ ~IsPlatform(PhoneText(row), platform)

\* valid_carrier_mask
ValidCarrier(row) ==
    Len(AsStr(row["carrier_id"]).v) > 4 /\ AsStr(row["carrier_id"]).v # "nan"

\* carrier_df
CarrierRows(f, platform) ==
    SeqFilter(LAMBDA row : ValidPhone(row, platform) /\ ValidCarrier(row), f.rows)

GroupKey(row) == <<row["carrier_id"], row["member_phone"], row["customer_name"]>>

\* the keys of carrier_df.groupby([...]): a row with a missing key is in no group
CarrierGroups(rows) ==
    {GroupKey(rows[i]) : i \in {k \in 1..Len(rows) :
                                  \A j \in 1..3 : ~IsNA(GroupKey(rows[k])[j])}}

\* the whole number of a numeric cell
WholeNumber(c) ==
    IF IsNA(c) \/ c.t \notin {"int", "float"} THEN 0
    ELSE IF c.t = "int" THEN ParseInt(c.v)
    ELSE ParseInt(SubSeq(c.v, 1, (CHOOSE i \in 1..Len(c.v) : CharAt(c.v, i) = ".") - 1))

RECURSIVE SumOver(_, _)
SumOver(rows, c) == IF rows = <<>> THEN 0 ELSE WholeNumber(Head(rows)[c]) + SumOver(Tail(rows), c)

\* Frequency, Recency and Monetary of one group
GroupStats(rows, key) ==
    LET members == SeqFilter(LAMBDA row : GroupKey(row) = key, rows)
        stamps == {members[i]["Date_Parsed"].v :
                     i \in {k \in 1..Len(members) : ~IsNA(members[k]["Date_Parsed"])}}
    IN  [key |-> key,
         Frequency |-> Cardinality({SubSeq(v, 1, 10) : v \in stamps}),
         Recency |-> IF stamps = {} THEN NaT
                     ELSE TsCell(CHOOSE m \in stamps : \A x \in stamps : ~StrLess(m, x)),
         Monetary |-> SumOver(members, "total_amount")]

\* the order of carrier_stats within one carrier after sort_values: Frequency,
\* Recency and Monetary descending, ties left in the order of the group keys
RankedBefore(g, h) ==
    \/ g.Frequency > h.Frequency
    \/ /\ g.Frequency = h.Frequency
       /\ \/ CellGreater(g.Recency, h.Recency)
          \/ /\ ~CellGreater(h.Recency, g.Recency)
             /\ \/ g.Monetary > h.Monetary
                \/ /\ g.Monetary = h.Monetary
                   /\ \/ CellLess(g.key[2], h.key[2])
                      \/ g.key[2] = h.key[2] /\ CellLess(g.key[3], h.key[3])

\* best_carriers: the first-ranked group of every carrier
best_carriers(rows) ==
    LET stats == {GroupStats(rows, key) : key \in CarrierGroups(rows)}
    IN  {g \in stats : \A h \in stats : (h.key[1] = g.key[1] /\ h # g) => RankedBefore(g, h)}

\* a variant that back-fills only the rows that give no phone at all
NeedsBackfillMissing(row, platform) ==
    PhoneText(row) \in {"", "nan", "None"} /\ ValidCarrier(row)

\* needs_backfill
NeedsBackfill(row, platform) ==
    ~ValidPhone(row, platform) /\ ValidCarrier(row) /\ ~IsPlatform(PhoneText(row), platform)

\* member_phone and customer_name taken from the carrier's first-ranked group
Backfill(f, platform) ==
    LET best == best_carriers(CarrierRows(f, platform))
        Mapped(row) == {g \in best : g.key[1] = row["carrier_id"]}
        Fix(row) == IF NeedsBackfill(row, platform) /\ Mapped(row) # {}
                    THEN LET g == CHOOSE x \in Mapped(row) : TRUE
                         IN  [row EXCEPT !["member_phone"] = g.key[2],
                                         !["customer_name"] = g.key[3]]
                    ELSE row
    IN  Eager([cols |-> f.cols, rows |-> SeqMap(Fix, f.rows)])

\* get_member_id
get_member_id(row, platform) ==
    LET p0 == PhoneText(row)
        c == Strip(AsStr(row["carrier_id"]).v)
        n == Strip(AsStr(row["customer_name"]).v)
        p1 == IF Contains(p0, "*") THEN "" ELSE p0
        is_platform == IsPlatform(p1, platform)
        p == IF is_platform THEN "" ELSE p1
    IN  IF is_platform /\ Len(n) > 0 /\ n # "nan" THEN Str("UE_" \o n)
        ELSE IF Len(p) > 6 /\ p # "nan" THEN Str("CRM_" \o p)
        ELSE IF Len(c) > 4 /\ c # "nan" THEN Str("Carrier_" \o c)
        ELSE NoneCell

\* the report as enrich_data returns it; an empty report is returned as it is
EnrichReport(report) ==
    IF IsEmpty(report) THEN report
    ELSE LET ready == EnsureColumns(ParseDates(report))
             platform == platform_phones(ready)
             Id(row) == get_member_id(row, platform)
         IN  SetCol(Backfill(ready, platform), "Member_ID", Id)

(***************************************************************************)
(* UniversalLoader.enrich_data: the details frame and the people_count of  *)
(* the report.  The category labels are given by their SKU letter, and the *)
(* order types in pinyin, as in _process_json_file above.                  *)
(***************************************************************************)
BoolCell(b) == [t |-> "bool", v |-> IF b THEN "True" ELSE "False"]

UpperChar(c) ==
    IF \E i \in 1..Len(LowerChars) : CharAt(LowerChars, i) = c
    THEN CharAt(UpperChars, CHOOSE i \in 1..Len(LowerChars) : CharAt(LowerChars, i) = c)
    ELSE c

RECURSIVE Upper(_)
\* str.upper()
Upper(s) == IF Len(s) = 0 THEN s
            ELSE UpperChar(CharAt(s, 1)) \o Upper(SubSeq(s, 2, Len(s)))

\* df_details.get('data_source', '') == 'json' for one row
FromJson(f, row) == "data_source" \in f.cols /\ row["data_source"] = Str("json")

\* Is_Modifier; prices are whole numbers here
Is_Modifier(f, row) ==
    IF "options" \in f.cols
    THEN /\ ~FromJson(f, row)
         /\ ~IsNA(row["options"])
         /\ Strip(AsStr(row["options"]).v) # ""
    ELSE IF "unit_price" \in f.cols
         THEN ~IsNA(row["unit_price"]) /\ WholeNumber(row["unit_price"]) <= 0
    ELSE FALSE

\* sku_series
sku_series(f, row) ==
    IF "sku" \in f.cols /\ ~IsNA(row["sku"]) THEN Strip(Upper(AsStr(row["sku"]).v)) ELSE ""

\* get_sku_category
get_sku_category(sku) ==
    IF StartsWith(sku, "A") THEN "A"
    ELSE IF StartsWith(sku, "B") THEN "B"
    ELSE IF StartsWith(sku, "C") THEN "C"
    ELSE IF StartsWith(sku, "D1") THEN "D1"
    ELSE IF StartsWith(sku, "D2") THEN "D2"
    ELSE IF StartsWith(sku, "D") THEN "D"
    ELSE IF StartsWith(sku, "E") THEN "E"
    ELSE IF StartsWith(sku, "F") THEN "F"
    ELSE IF StartsWith(sku, "S") THEN "S"
    ELSE "other"

\* Is_Main_Dish of a frame that has the columns item_name and options
Is_Main_Dish(f, row) ==
    LET sku == sku_series(f, row)
        name_series == IF IsNA(row["item_name"]) THEN "" ELSE AsStr(row["item_name"]).v
        cond_sku_match == StartsWith(sku, "A") \/ StartsWith(sku, "B")
        cond_name_match == HasSubstring(name_series, "&") \/ HasSubstring(name_series, "%")
        combined_type(c) == IF c \in f.cols /\ ~IsNA(row[c]) THEN Lower(AsStr(row[c]).v) ELSE ""
        is_combo == \E c \in {"item_type", "order_type"} :
                       HasSubstring(combined_type(c), "combo item")
        cond_no_sku_fallback == sku = "" /\ cond_name_match /\ ~is_combo
        mask_no_mod == \/ FromJson(f, row)
                       \/ IsNA(row["options"])
                       \/ Strip(AsStr(row["options"]).v) = ""
    IN  (cond_sku_match \/ cond_no_sku_fallback) /\ mask_no_mod

\* the exception the details part of enrich_data ends with, "" when it ends normally:
\* unit_price <= 0 on texts (line 789) and df_details['options'] (line 844)
DetailsRaise(f) ==
    IF IsEmpty(f) THEN ""
    ELSE IF /\ "options" \notin f.cols
            /\ "unit_price" \in f.cols
            /\ \E i \in 1..Len(f.rows) : f.rows[i]["unit_price"].t = "str"
         THEN "TypeError"
    ELSE IF "item_name" \in f.cols /\ "options" \notin f.cols THEN "KeyError"
    ELSE ""

\* 2. Details Enrichment, for a frame on which it does not raise
EnrichDetails(f) ==
    IF IsEmpty(f) THEN f
    ELSE LET Mod(row) == BoolCell(Is_Modifier(f, row))
             Sku(row) == IF "sku" \in f.cols THEN row["sku"] ELSE Str("")
             Cat(row) == Str(get_sku_category(sku_series(f, row)))
             Main(row) == BoolCell(Is_Main_Dish(f, row))
             marked == SetCol(ParseDates(f), "Is_Modifier", Mod)
         IN  IF "item_name" \notin f.cols THEN marked
             ELSE SetCol(SetCol(SetCol(marked, "sku", Sku), "category", Cat),
                         "Is_Main_Dish", Main)

\* the rows of order id that are main dishes, in an enriched details frame
MainDishRows(d, id) ==
    SeqFilter(LAMBDA row : row["Is_Main_Dish"] = BoolCell(TRUE) /\ row["order_id"] = id, d.rows)

RECURSIVE JoinTexts(_, _)
JoinTexts(rows, c) == IF rows = <<>> THEN "" ELSE Head(rows)[c].v \o JoinTexts(Tail(rows), c)

\* calculated_people of one report row: groupby('order_id')['qty'].sum(), merged on
\* order_id and filled with 0.  The sum of texts is their concatenation.
calculated_people(d, id) ==
    LET rows == MainDishRows(d, id)
    IN  IF IsNA(id) \/ rows = <<>> THEN IntCell("0")
        ELSE IF \E i \in 1..Len(rows) : rows[i]["qty"].t = "str"
             THEN Str(JoinTexts(rows, "qty"))
        ELSE IntCell(IntStr(SumOver(rows, "qty")))

\* pd.to_numeric(row.get('people_count', 0), errors='coerce'), NaN replaced by 0
OrigPeople(report, row) ==
    IF "people_count" \notin report.cols THEN 0
    ELSE LET c == row["people_count"]
         IN  IF c.t = "str"
             THEN (IF IsIntText(c.v) THEN ParseInt(c.v)
                   ELSE IF IsDecimalText(c.v) THEN WholeNumber(FloatCell(FloatText(c.v)))
                   ELSE 0)
             ELSE WholeNumber(c)

\* data_source == 'json' or order_type in [delivery, takeout, pick-up]
TrustsMainDishes(report, row) ==
    \/ "data_source" \in report.cols /\ row["data_source"] = Str("json")
    \/ "order_type" \in report.cols /\ row["order_type"] \in {Str("wai-song"), Str("wai-dai"), Str("zi-qu")}

Max2(a, b) == IF a >= b THEN a ELSE b

\* fix_people_count for a numeric calculated_people
fix_people_count(report, row, calc) ==
    LET orig == OrigPeople(report, row)
    IN  IF TrustsMainDishes(report, row)
        THEN (IF calc > 0 THEN Max2(calc, 1) ELSE Max2(orig, 1))
        ELSE Max2(orig, calc)

\* whether 3. Post-Enrichment Cross-Updates runs
UpdatesPeople(report, d) == "Is_Main_Dish" \in d.cols /\ "order_id" \in report.cols

\* the exception the cross-update ends with: df_details[...]['qty'] without the
\* column, and calc > 0 or max(orig, calc) on a text
PeopleRaise(report, d) ==
    IF ~UpdatesPeople(report, d) THEN ""
    ELSE IF "qty" \notin d.cols THEN "KeyError"
    ELSE IF \E i \in 1..Len(report.rows) :
                calculated_people(d, report.rows[i]["order_id"]).t = "str"
         THEN "TypeError"
    ELSE ""

\* the report with people_count recomputed from the main dishes
UpdatePeople(report, d) ==
    IF ~UpdatesPeople(report, d) THEN report
    ELSE LET Fix(row) ==
                 IntCell(IntStr(fix_people_count(report, row,
                             WholeNumber(calculated_people(d, row["order_id"])))))
         IN  SetCol(report, "people_count", Fix)

\* 3. Post-Enrichment Cross-Updates on the enriched report r and details d
CrossUpdate(r, d) ==
    IF PeopleRaise(r, d) # ""
    THEN [raised |-> PeopleRaise(r, d), report |-> r, details |-> d]
    ELSE [raised |-> "", report |-> UpdatePeople(r, d), details |-> d]

\* 2. and 3. on the enriched report r and the details handed in
EnrichBoth(r, details) ==
    IF IsEmpty(details) THEN [raised |-> "", report |-> r, details |-> details]
    ELSE IF DetailsRaise(details) # ""
         THEN [raised |-> DetailsRaise(details), report |-> r, details |-> details]
    ELSE CrossUpdate(r, EnrichDetails(details))

\* what enrich_data returns, or the exception it raises
Enrich(report, details) == EnrichBoth(EnrichReport(report), details)

\* the caller's assignment of what enrich_data returned, unless it raised
EndEnrich(out) ==
    IF out.raised = ""
    THEN enriched' = <<out.report, out.details>> /\ pc' = pc
    ELSE enriched' = enriched /\ pc' = out.raised

\* df_report, df_details = loader.enrich_data(df_report, df_details); pc names the
\* exception when the call raises
EnrichData ==
    /\ pc = "done"
    /\ enriched = <<>>
    /\ EndEnrich(Enrich(df_report, df_details))
    /\ UNCHANGED <<disk, clock, cache, raw_files_to_process, todo, seen_files,
                   report_data, invoice_data, details_data, debug_logs, df_report,
                   df_details, latest_dates, returned>>

(***************************************************************************)
(* The caller and the file system between calls                            *)
(***************************************************************************)
MaxFiles == 2
MaxCalls == 2
MaxClock == 2

\* scan_and_load is called again on the same loader
CallAgain ==
    /\ pc = "done"
    /\ Len(returned) < MaxCalls
    /\ pc' = "idle"
    /\ UNCHANGED <<disk, clock, cache, raw_files_to_process, todo, seen_files,
                   report_data, invoice_data, details_data, debug_logs, df_report,
                   df_details, latest_dates, returned, enriched>>

\* time passes and a raw file is rewritten with the same content
TouchFile ==
    /\ pc = "done"
    /\ clock < MaxClock
    /\ clock' = clock + 1
    /\ \E i \in 1..Len(disk) : disk' = [disk EXCEPT ![i].mtime = clock']
    /\ UNCHANGED <<cache, pc, raw_files_to_process, todo, seen_files, report_data,
                   invoice_data, details_data, debug_logs, df_report, df_details,
                   latest_dates, returned, enriched>>

\* loader = UniversalLoader(): the next call is made on a new loader, as get_raw_data
\* does; the new object has the attributes __init__ sets and no others
NewLoader ==
    /\ pc = "done"
    /\ Len(returned) < MaxCalls
    /\ pc' = "idle"
    /\ report_data' = <<>>
    /\ invoice_data' = <<>>
    /\ details_data' = <<>>
    /\ debug_logs' = <<>>
    /\ seen_files' = {}
    /\ latest_dates' = NoAttribute
    /\ UNCHANGED <<disk, clock, cache, raw_files_to_process, todo, df_report, df_details,
                   returned, enriched>>

(***************************************************************************)
(* Raw files the model loads                                               *)
(***************************************************************************)
CsvFile(path, lines) == [path |-> path, mtime |-> 1, lines |-> lines, orders |-> <<>>]
JsonFile(path, orders) == [path |-> path, mtime |-> 1, lines |-> <<>>, orders |-> orders]

ReportHeader == <<"Order No", "Date", "Total", "Status", "Phone", "Name", "Invoice No">>

\* the daily order 111 of two days, named as history reports
ReportDay1 ==
    CsvFile("/data/history_report_day1.csv",
            <<ReportHeader,
              <<"111", "2024-01-01 12:30", "NT$1,200", "Paid", "0911111111", "Amy", "AB100">> >>)

ReportDay2 ==
    CsvFile("/data/history_report_day2.csv",
            <<ReportHeader,
              <<"111", "2024-01-02 18:45", "300", "Completed", "", "", "">> >>)

\* the same two days exported with a totals line that has no order number
ReportDay1Totals ==
    CsvFile("/data/undefined_day1.csv",
            <<ReportHeader,
              <<"111", "2024-01-01 12:30", "500", "Paid", "", "", "">>,
              <<"", "", "500", "", "", "", "">> >>)

ReportDay2Totals ==
    CsvFile("/data/undefined_day2.csv",
            <<ReportHeader,
              <<"111", "2024-01-02 12:30", "700", "Paid", "", "", "">>,
              <<"", "", "700", "", "", "", "">> >>)

\* order A1001 keyed twice by hand: once with the name, once with the phone
ReportMembers ==
    CsvFile("/cwd/data/undefined_members.csv",
            <<ReportHeader,
              <<"A1001", "2024-01-01 12:31", "200", "Paid", "", "Bob", "AB100">>,
              <<"A1001", "2024-01-01 12:31", "200", "Paid", "P0922222222", "", "AB100">> >>)

ReportPhone ==
    CsvFile("/data/history_report_phone.csv",
            <<ReportHeader,
              <<"A1001", "2024-01-01 12:31", "250", "Paid", "P0933333333", "Cat", "">> >>)

ReportStatus ==
    CsvFile("/data/history_report_status.csv",
            <<ReportHeader,
              <<"A2001", "2024-01-03 11:00", "100", " Void ", "", "", "">>,
              <<"A2002", "2024-01-03 11:05", "100", "CANCELLED", "", "", "">>,
              <<"A2003", "2024-01-03 11:10", "100", "@^~", "", "", "">>,
              <<"A2004", "2024-01-03 11:15", "100", "Closed", "", "", "">>,
              <<"A2005", "2024-01-03 11:20", "100", "@[] ", "", "", "">>,
              <<"A2006", "2024-01-03 11:25", "100", "Paid", "", "", "">> >>)

Item(name, sku, qty, combo, bundled) ==
    [product_name |-> name, product_code |-> sku, quantity |-> qty, price |-> 100,
     price_total |-> 100 * qty, modifiers |-> <<>>, is_combo |-> combo, bundled |-> bundled]

Order(status, code, created, total, phone, name, invoice, items) ==
    [status |-> status, short_code |-> code, id |-> "f3a9c2d471", created_at |-> created,
     total_price |-> total, type |-> "dine_in", party_size |-> 1, payment |-> "Cash",
     phone |-> phone, first_name |-> name, invoice_number |-> invoice, line_items |-> items]

JsonOrders ==
    JsonFile("/data/orders.json",
             <<Order("COMPLETED", "A1001", "2024-01-01 12:31:07", 100, "", "", "AB100",
                     <<Item("Beef Noodle", "A01", 1, FALSE, <<>>)>>),
               Order("PROCESSING", "A1002", "2024-01-01 12:40:00", 150, "", "", "", <<>>),
               Order("CANCELLED", "A2001", "2024-01-03 11:00:00", 100, "", "", "", <<>>)>>)

JsonNumeric ==
    JsonFile("/data/OperationReport_day1.txt",
             <<Order("COMPLETED", "111", "2024-01-01 12:30:05", 1100, "", "", "AB100",
                     <<Item("Set A", "S01", 2, TRUE,
                            <<Item("Dry Noodle", "B02", 1, FALSE, <<>>)>>)>>)>>)

InvoiceJan ==
    CsvFile("/data/invoice_jan.csv",
            <<<<"Invoice Number", "Carrier No", "Tax ID">>,
              <<"AB100", "/ABCD123", "">>,
              <<"AB100", "/ZZZZ999", "">>,
              <<"AB200", "", "12345678">> >>)

DetailsHeader == <<"Order No", "Date", "Item Name", "Qty", "Status", "Product SKU">>

DetailsDay1 ==
    CsvFile("/data/Transaction Report day1.csv",
            <<DetailsHeader,
              <<"111", "2024-01-01 12:30", "Beef Noodle", "1", "Paid", "A01">>,
              <<"A1001", "2024-01-01 12:31", "Rice", "2", "Paid", "B01">>,
              <<"A1001", "2024-01-01 12:31", "Tea", "1", "VOID", "F01">>,
              <<"B9999", "2024-01-01 13:00", "Tea", "1", "Paid", "F01">> >>)

\* an export that starts with a title line and lists one line item twice; it lies
\* below two of the configured roots
DetailsDay2 ==
    CsvFile("/cwd/data/Transaction Report day2.csv",
            <<<<"Transaction Report 2024-01-02 exported">>,
              DetailsHeader,
              <<"A1001", "2024-01-01 12:31", "Rice", "2", "Paid", "B01">>,
              <<"A1001", "2024-01-01 12:31", "Rice", "2", "Paid", "B01">> >>)

\* an export of zero bytes: read_csv raises EmptyDataError
ReportEmpty == CsvFile("/data/history_report_empty.csv", <<>>)

\* a download cut off after its first character: json.load raises
JsonBroken == [path |-> "/data/orders_broken.json", mtime |-> 1, lines |-> <<<<"{">>>>,
               orders |-> <<>>]

\* a download taken while the only order of the day was still open
JsonOpen ==
    JsonFile("/data/orders_open.json",
             <<Order("PROCESSING", "A3001", "2024-01-04 12:00:00", 150, "", "", "",
                     <<Item("Beef Noodle", "A01", 1, FALSE, <<>>)>>)>>)

\* a download with a combo whose own product code is that of a noodle dish
JsonCombo ==
    JsonFile("/data/orders_combo.json",
             <<Order("COMPLETED", "A4001", "2024-01-07 12:00:00", 300, "", "", "",
                     <<Item("Noodle Set", "A90", 1, TRUE,
                            <<Item("Dry Noodle", "B02", 1, FALSE, <<>>)>>)>>)>>)

\* a report export that has a carrier column of its own
ReportCarrier ==
    CsvFile("/data/history_report_carrier.csv",
            <<ReportHeader \o <<"Carrier No">>,
              <<"C1001", "2024-01-06 12:00", "100", "Paid", "", "", "AB100", "/MINE001">>,
              <<"C1002", "2024-01-06 12:05", "100", "Paid", "", "", "AB100", "">>,
              <<"C1003", "2024-01-06 12:10", "100", "Paid", "", "", "AB200", "">>,
              <<"C1004", "2024-01-06 12:15", "100", "Paid", "", "", "AB999", "">>,
              <<"C1005", "2024-01-06 12:20", "100", "Paid", "", "", "", "/SOLO001">> >>)

LoadCatalog ==
    {ReportDay1, ReportDay2, ReportDay1Totals, ReportDay2Totals, ReportMembers,
     ReportPhone, ReportStatus, JsonOrders, JsonNumeric, InvoiceJan, DetailsDay1,
     DetailsDay2, ReportEmpty, JsonBroken, JsonOpen, ReportCarrier, JsonCombo}

\* the directory listings of at most MaxFiles files of the catalog
Listings ==
    UNION {{files \in [1..n -> LoadCatalog] : \A i, j \in 1..n : i # j => files[i] # files[j]} :
             n \in 0..MaxFiles}

\* the listings the repeated calls run over
CacheListings ==
    {<<>>, <<ReportDay1>>, <<JsonOrders, DetailsDay1>>, <<ReportDay2, InvoiceJan>>,
     <<ReportMembers, JsonOrders>>}

\* a fresh UniversalLoader over one of the listings, no cache written yet
InitOver(listings) ==
    /\ disk \in listings
    /\ clock = 1
    /\ cache = [report |-> NoFile, details |-> NoFile]
    /\ pc = "idle"
    /\ raw_files_to_process = <<>>
    /\ todo = 1
    /\ seen_files = {}
    /\ report_data = <<>>
    /\ invoice_data = <<>>
    /\ details_data = <<>>
    /\ debug_logs = <<>>
    /\ df_report = EmptyFrame
    /\ df_details = EmptyFrame
    /\ latest_dates = NoAttribute
    /\ returned = <<>>
    /\ enriched = <<>>

\* one scan_and_load call of a fresh loader
InitLoad == InitOver(Listings)

NextLoad ==
    Begin \/ ProcessFile \/ MergeData \/ MergeDataRaises \/ SaveCacheOk \/ SaveCacheFail

SpecLoad == InitLoad /\ [][NextLoad]_vars

\* repeated calls while files are touched and the cache is read and written
InitCache == InitOver(CacheListings)

NextCache ==
    \/ Begin \/ ReadCacheOk \/ ReadCacheFail \/ ProcessFile \/ MergeData \/ MergeDataRaises
    \/ SaveCacheOk \/ SaveCacheFail \/ CallAgain \/ TouchFile

SpecCache == InitCache /\ [][NextCache]_vars

\* the listings the calls on successive loaders run over
FreshListings == CacheListings \cup {<<f>> : f \in LoadCatalog}

\* every call is made on a loader of its own; the cache directory is shared
InitFresh == InitOver(FreshListings)

NextFresh ==
    \/ Begin \/ ReadCacheOk \/ ReadCacheFail \/ ProcessFile \/ MergeData \/ MergeDataRaises
    \/ SaveCacheOk \/ SaveCacheFail \/ NewLoader

SpecFresh == InitFresh /\ [][NextFresh]_vars

(***************************************************************************)
(* Files that come and go between the calls                                *)
(***************************************************************************)
\* the exports that may be copied below a data directory between two calls
Arrivals == {ReportDay2, ReportPhone}

\* a raw file is removed
DeleteFile ==
    /\ pc = "done"
    /\ Len(returned) < MaxCalls
    /\ \E i \in 1..Len(disk) :
          disk' = SubSeq(disk, 1, i - 1) \o SubSeq(disk, i + 1, Len(disk))
    /\ UNCHANGED <<clock, cache, pc, raw_files_to_process, todo, seen_files, report_data,
                   invoice_data, details_data, debug_logs, df_report, df_details,
                   latest_dates, returned, enriched>>

\* a raw file arrives: written now, or copied with the modification time it had
AddFile ==
    /\ pc = "done"
    /\ Len(returned) < MaxCalls
    /\ Len(disk) <= MaxFiles
    /\ \E f \in Arrivals, kept \in BOOLEAN :
          /\ \A i \in 1..Len(disk) : disk[i].path # f.path
          /\ disk' = Append(disk, [f EXCEPT !.mtime = IF kept THEN f.mtime ELSE clock])
    /\ UNCHANGED <<clock, cache, pc, raw_files_to_process, todo, seen_files, report_data,
                   invoice_data, details_data, debug_logs, df_report, df_details,
                   latest_dates, returned, enriched>>

NextFiles == NextCache \/ DeleteFile \/ AddFile

SpecFiles == InitCache /\ [][NextFiles]_vars

(***************************************************************************)
(* Exports with and without a line above their header                      *)
(***************************************************************************)
\* the lines exports put above the header: a dated title alone on its line, a title
\* followed by empty cells, and a line of empty cells
TitleLines ==
    {<<"Transaction Report 2024-01-02 exported">>,
     <<"Boiling Noodles store 12 daily export", "", "", "", "", "", "">>,
     <<"Export", "", "", "", "", "", "">>,
     <<"", "", "", "", "", "", "">>}

WithTitle(file, title) == [file EXCEPT !.lines = <<title>> \o @]

\* the exports of the catalog that start with their header
PlainExports ==
    {ReportDay1, ReportDay2, ReportDay1Totals, ReportDay2Totals, ReportMembers,
     ReportPhone, ReportStatus, InvoiceJan, DetailsDay1}

HeaderListings ==
    {<<f>> : f \in PlainExports} \cup {<<WithTitle(f, t)>> : f \in PlainExports, t \in TitleLines}

\* one call over one export
InitHeader == InitOver(HeaderListings)

NextHeader == Begin \/ ProcessFile \/ MergeData \/ SaveCacheOk \/ SaveCacheFail

SpecHeader == InitHeader /\ [][NextHeader]_vars

(***************************************************************************)
(* Exports of every kind of name and of every choice of columns            *)
(***************************************************************************)
\* names no rule knows, names the rules know, and names that say undefined
ExportPaths ==
    {"/data/export_jan.csv", "/data/undefined_jan.csv", "/data/undefined invoice.csv",
     "/data/invoice_feb.csv", "/data/history_report_jan.csv",
     "/data/Transaction Report jan.csv"}

\* the columns an export may have next to its date, and the cell of its one line
ExportFields ==
    <<<<"Item Name", "Rice">>, <<"Order No", "A5001">>, <<"Total", "100">>,
      <<"Invoice No", "AB500">> >>

\* the export at path that has the date and the fields numbered in chosen
Export(path, chosen) ==
    LET picked == SelectSeq(ExportFields,
                            LAMBDA f : \E i \in chosen : ExportFields[i] = f)
    IN  CsvFile(path,
                <<<<"Date">> \o [i \in 1..Len(picked) |-> picked[i][1]],
                  <<"2024-01-05 12:00">> \o [i \in 1..Len(picked) |-> picked[i][2]]>>)

ExportListings ==
    {<<Export(path, chosen)>> : path \in ExportPaths, chosen \in SUBSET (1..Len(ExportFields))}

\* one call over one export
InitExport == InitOver(ExportListings)

NextExport == Begin \/ ProcessFile \/ MergeData \/ SaveCacheOk \/ SaveCacheFail

SpecExport == InitExport /\ [][NextExport]_vars

(***************************************************************************)
(* Reports handed to enrich_data                                           *)
(***************************************************************************)
MaxRows == 3

EnrichCols == {"order_id", "date", "total_amount", "member_phone", "customer_name",
               "carrier_id"}

ReportRow(id, date, total, phone, name, carrier) ==
    [c \in EnrichCols |->
        CASE c = "order_id" -> Str(id)
          [] c = "date" -> TsCell(date)
          [] c = "total_amount" -> IntCell(NatStr(total))
          [] c = "member_phone" -> phone
          [] c = "customer_name" -> name
          [] OTHER -> Str(carrier)]

\* who presented the carrier /ABCD123, on which day, for how much
Visits ==
    [who : {<<Str("0911111111"), Str("Amy")>>, <<Str("0922222222"), Str("Bea")>>,
            <<Str("0911111111"), NA>>},
     date : {"2025-10-01 12:00:00", "2025-10-05 12:00:00"},
     total : {100, 200}]

VisitRow(n, v) ==
    ReportRow("V" \o NatStr(n), v.date, v.total, v.who[1], v.who[2], "/ABCD123")

\* the orders that left a carrier and no phone
AnonymousRows ==
    <<ReportRow("004", "2025-09-01 12:00:00", 500, NoneCell, NoneCell, "/ABCD123"),
      ReportRow("005", "2025-11-01 12:00:00", 100, Str(""), Str(""), "/ABCD123"),
      ReportRow("006", "2025-12-01 12:00:00", 300, NoneCell, NoneCell, "/ALONE99")>>

\* an order of Visits, used to list every choice of visits once
VisitRank(v) ==
    (IF v.who[1] = Str("0922222222") THEN 8 ELSE IF IsNA(v.who[2]) THEN 4 ELSE 0)
    + (IF v.date = "2025-10-05 12:00:00" THEN 2 ELSE 0) + (IF v.total = 200 THEN 1 ELSE 0)

EnrichInputs ==
    UNION {{[cols |-> EnrichCols,
             rows |-> [i \in 1..n |-> VisitRow(i, vs[i])] \o AnonymousRows] :
              vs \in {w \in [1..n -> Visits] :
                        \A i \in 1..(n - 1) : VisitRank(w[i]) <= VisitRank(w[i + 1])}} :
             n \in 0..MaxRows}

(***************************************************************************)
(* Details handed to enrich_data, with the report of their orders          *)
(***************************************************************************)
LineCols == {"order_id", "date", "item_name", "sku", "qty", "options", "item_type",
             "data_source"}

\* one line item: what was sold, how it is marked and how many of it
Lines ==
    [sku : {Str("a01"), Str("F01"), NA},
     name : {"!+%", "Tea"},
     options : {NA, Str("Spicy")},
     item_type : {"Normal", "Combo Item"},
     source : {"json", "csv"},
     qty : {"-1", "2"}]

DetailRow(id, l) ==
    [c \in LineCols |->
        CASE c = "order_id" -> Str(id)
          [] c = "date" -> TsCell("2025-10-01 12:00:00")
          [] c = "item_name" -> Str(l.name)
          [] c = "sku" -> l.sku
          [] c = "qty" -> IntCell(l.qty)
          [] c = "options" -> l.options
          [] c = "item_type" -> Str(l.item_type)
          [] OTHER -> Str(l.source)]

\* an order of Lines, used to list every pair of lines once
LineRank(l) ==
    (IF l.sku = Str("a01") THEN 0 ELSE IF l.sku = Str("F01") THEN 32 ELSE 64)
    + (IF l.name = "Tea" THEN 16 ELSE 0) + (IF IsNA(l.options) THEN 0 ELSE 8)
    + (IF l.item_type = "Normal" THEN 0 ELSE 4) + (IF l.source = "json" THEN 0 ELSE 2)
    + (IF l.qty = "2" THEN 1 ELSE 0)

\* the lines of order O2: one bowl of noodles
OtherOrder ==
    <<DetailRow("O2", [sku |-> Str("A02"), name |-> "&", options |-> Str(""),
                       item_type |-> "Normal", source |-> "json", qty |-> "1"])>>

\* order O1 with no, one or two lines, next to order O2
MixedDetails ==
    {[cols |-> LineCols, rows |-> lines \o OtherOrder] :
        lines \in {<<>>} \cup {<<DetailRow("O1", a)>> : a \in Lines}
                  \cup {<<DetailRow("O1", p[1]), DetailRow("O1", p[2])>> :
                          p \in {q \in Lines \X Lines : LineRank(q[1]) <= LineRank(q[2])}}}

\* details that came from CSV exports only: no options and no item_type column
CsvOnlyDetails ==
    {SelectCols(f, LineCols \ {"options", "item_type"}) :
        f \in {[cols |-> LineCols, rows |-> <<DetailRow("O1", a)>>] :
                 a \in {l \in Lines : /\ l.source = "csv" /\ IsNA(l.options)
                                      /\ l.item_type = "Normal"}}}

DetailInputs == MixedDetails \cup CsvOnlyDetails

OrderRow(id, source, type, people) ==
    [c \in EnrichCols \cup {"data_source", "order_type", "people_count"} |->
        CASE c = "data_source" -> Str(source)
          [] c = "order_type" -> Str(type)
          [] c = "people_count" -> IntCell(people)
          [] OTHER -> ReportRow(id, "2025-10-01 12:00:00", 100, NoneCell, NoneCell, "")[c]]

\* the report of the orders O1 and O2, and of an order that has no detail rows
OrdersReport ==
    [cols |-> EnrichCols \cup {"data_source", "order_type", "people_count"},
     rows |-> <<OrderRow("O1", "csv", "nei-yong", "3"), OrderRow("O2", "json", "nei-yong", "1"),
                OrderRow("O3", "csv", "wai-dai", "0")>>]

(***************************************************************************)
(* Reports whose rows differ in what identifies the customer               *)
(***************************************************************************)
\* a phone, a masked phone, the phone of a delivery platform alone and inside a
\* longer text, a short number, and no phone
TierPhones ==
    {Str("0911111111"), Str("09****1111"), Str("55941277"), Str(" 02 55941277"),
     Str("12345"), Str(""), NA, NoneCell}

TierNames == {Str("Amy"), Str(""), NA, NoneCell}

TierCarriers == {Str("/ABCD123"), Str("/AB"), NA}

\* one order of such a customer, alone or after an order that presented the carrier
\* /ABCD123 with a phone
TierInputs ==
    {[cols |-> EnrichCols,
      rows |-> before \o <<[ReportRow("T1", "2025-10-02 12:00:00", 100, t[1], t[2], "")
                              EXCEPT !["carrier_id"] = t[3]]>>] :
        t \in TierPhones \X TierNames \X TierCarriers,
        before \in {<<>>, <<ReportRow("T0", "2025-10-01 12:00:00", 100, Str("0933333333"),
                                      Str("Cat"), "/ABCD123")>>}}

(***************************************************************************)
(* Reports in which one phone is given with many names                     *)
(***************************************************************************)
\* the least and the most orders that give the phone
FewNames == 8
ManyNames == 10

\* the phone many orders give: a mobile number, one of six digits, one too short to
\* count, and a masked one
CrowdPhones == {"0955555555", "095555", "09555", "0955*55555"}

\* the phone as order i writes it: every second order with spaces when spaced
WrittenPhone(ph, spaced, i) ==
    IF spaced /\ i % 2 = 1 THEN " " \o SubSeq(ph, 1, 2) \o " " \o SubSeq(ph, 3, Len(ph)) ELSE ph

\* orders of one customer each, of the platform number, of a number that contains it
\* and of a number nobody shares
LoneRows ==
    <<ReportRow("L1", "2025-10-03 12:00:00", 100, Str("55941277"), Str("Uma"), ""),
      ReportRow("L2", "2025-10-03 12:00:00", 100, Str("0255941277"), Str("Zed"), ""),
      ReportRow("L3", "2025-10-03 12:00:00", 100, Str("0966666666"), Str("Kim"), "")>>

\* n orders that give the phone ph, each with a name of its own unless the last
\* repeats the name of the first
CrowdReport(n, ph, spaced, repeated) ==
    [cols |-> EnrichCols,
     rows |-> [i \in 1..n |->
                 ReportRow("S" \o NatStr(i), "2025-10-02 12:00:00", 100,
                           Str(WrittenPhone(ph, spaced, i)),
                           Str("N" \o NatStr(IF repeated /\ i = n THEN 1 ELSE i)), "")]
              \o LoneRows]

CrowdInputs ==
    {CrowdReport(n, ph, spaced, repeated) :
        n \in FewNames..ManyNames, ph \in CrowdPhones, spaced \in BOOLEAN,
        repeated \in BOOLEAN}

\* a loader whose scan_and_load returned one of the reports
InitEnrich ==
    /\ \/ df_report \in EnrichInputs /\ df_details = EmptyFrame
       \/ df_report = OrdersReport /\ df_details \in DetailInputs
       \/ df_report \in TierInputs /\ df_details = EmptyFrame
       \/ df_report \in CrowdInputs /\ df_details = EmptyFrame
    /\ disk = <<>>
    /\ clock = 1
    /\ cache = [report |-> NoFile, details |-> NoFile]
    /\ pc = "done"
    /\ raw_files_to_process = <<>>
    /\ todo = 1
    /\ seen_files = {}
    /\ report_data = <<>>
    /\ invoice_data = <<>>
    /\ details_data = <<>>
    /\ debug_logs = <<>>
    /\ latest_dates = NoAttribute
    /\ returned = <<>>
    /\ enriched = <<>>

NextEnrich == EnrichData

SpecEnrich == InitEnrich /\ [][NextEnrich]_vars

(***************************************************************************)
(* Properties of _merge_data, checked where it has just produced its       *)
(* frames (pc = "save") and on every result a raw parse returned           *)
(***************************************************************************)
\* the frames _merge_data has produced and scan_and_load has returned from a raw parse
RawFrames ==
    (IF pc = "save" THEN {[report |-> df_report, details |-> df_details]} ELSE {})
    \cup {[report |-> returned[k].report, details |-> returned[k].details] :
            k \in {i \in 1..Len(returned) : returned[i].via = "raw"}}

\* the concatenated report chunks _merge_data starts from
AllReport == FillDataSource(Concat(report_data))

UniqueOrderIds(f) ==
    "order_id" \in f.cols =>
        \A i, j \in 1..Len(f.rows) : i # j => f.rows[i]["order_id"] # f.rows[j]["order_id"]

\* C1: in the report frame produced by _merge_data and returned after a raw parse,
\* no two rows have the same order_id, whatever CSV, JSON and invoice chunks were
\* loaded: neither the member back-fill nor the invoice join adds a row
C1_OrderIdsUnique == \A fr \in RawFrames : UniqueOrderIds(fr.report)

\* an order_id loaded more than once, the csv member lookup merged in, and an invoice
\* loaded twice joined onto the report
C1_MergedDuplicates ==
    /\ pc = "save"
    /\ report_data # <<>> /\ "order_id" \in AllReport.cols
    /\ Len(AllReport.rows) > Len(df_report.rows)
    /\ ~IsEmpty(CsvMembers(SortReport(AllReport)))
    /\ invoice_data # <<>>
    /\ Len(Concat(invoice_data).rows) > Len(InvoiceLookup(invoice_data).rows)
    /\ \E i \in 1..Len(df_report.rows) :
          "carrier_id" \in df_report.cols /\ ~IsNA(df_report.rows[i]["carrier_id"])

\* C2: every row of the final details frame has the order_id of a row of the final
\* report frame of the same call, also when no report chunk was loaded
C2_DetailsInReport ==
    \A fr \in RawFrames :
        "order_id" \in fr.details.cols =>
            \A i \in 1..Len(fr.details.rows) :
                /\ "order_id" \in fr.report.cols
                /\ \E k \in 1..Len(fr.report.rows) :
                      fr.report.rows[k]["order_id"] = fr.details.rows[i]["order_id"]

\* C3: when the concatenated report chunks hold a json row and a csv row of one
\* order_id, the one final row of that order_id is a json row: it carries that
\* row's value in total_amount and in every column of the chunks but member_phone
\* and customer_name, whatever the load order
C3_JsonRowWins ==
    (pc = "save" /\ report_data # <<>> /\ "order_id" \in AllReport.cols) =>
        \A i, j \in 1..Len(AllReport.rows) :
            (/\ IsJsonRow(AllReport.rows[i]) /\ IsCsvRow(AllReport.rows[j])
             /\ AllReport.rows[i]["order_id"] = AllReport.rows[j]["order_id"])
            => \E k \in 1..Len(df_report.rows) :
                  /\ df_report.rows[k]["order_id"] = AllReport.rows[i]["order_id"]
                  /\ \E m \in 1..Len(AllReport.rows) :
                        /\ IsJsonRow(AllReport.rows[m])
                        /\ df_report.rows[k]["total_amount"] = AllReport.rows[m]["total_amount"]
                        /\ \A c \in AllReport.cols \ {"member_phone", "customer_name"} :
                              df_report.rows[k][c] = AllReport.rows[m][c]

\* a csv report loaded before the json file, both with order A1001, totals differing
C3_CsvLoadedFirst ==
    /\ pc = "save"
    /\ Len(report_data) = 2
    /\ \A i \in 1..Len(report_data[1].rows) : "data_source" \notin report_data[1].cols
    /\ \E i \in 1..Len(report_data[1].rows), j \in 1..Len(report_data[2].rows) :
          /\ IsJsonRow(report_data[2].rows[j])
          /\ report_data[1].rows[i]["order_id"] = report_data[2].rows[j]["order_id"]
          /\ report_data[1].rows[i]["total_amount"] # report_data[2].rows[j]["total_amount"]
    /\ Len(df_report.rows) = 1

\* a member field with nothing in it
Missing(c) == IsNA(c) \/ c.v \in {"", "nan"}

\* C4: when the row surviving deduplication has an empty or missing member_phone
\* (or customer_name) and some csv row of that order_id carries a value for it, the
\* final row's field is one of those csv values
C4_MemberBackfilled ==
    (pc = "save" /\ report_data # <<>> /\ "order_id" \in AllReport.cols) =>
        \A c \in PreservedCols(AllReport) :
            \A k \in 1..Len(df_report.rows) :
                LET survivor == CHOOSE row \in
                        {DedupReport(SortReport(AllReport)).rows[n] :
                           n \in 1..Len(DedupReport(SortReport(AllReport)).rows)} :
                        row["order_id"] = df_report.rows[k]["order_id"]
                    carried == {AllReport.rows[j][c] :
                                  j \in {n \in 1..Len(AllReport.rows) :
                                           /\ IsCsvRow(AllReport.rows[n])
                                           /\ AllReport.rows[n]["order_id"]
                                                = df_report.rows[k]["order_id"]
                                           /\ ~Missing(AllReport.rows[n][c])}}
                IN  (Missing(survivor[c]) /\ carried # {}) => df_report.rows[k][c] \in carried

\* the statuses the final frames must not hold
ClaimInvalidStatuses == {"cancelled", "void", "closed", "@^~", "@[]"}

ValidStatuses(f) ==
    "status" \in f.cols =>
        \A i \in 1..Len(f.rows) :
            IsNA(f.rows[i]["status"])
            \/ Lower(Strip(AsStr(f.rows[i]["status"]).v)) \notin ClaimInvalidStatuses

\* C5: no row of the final report or details frame has a status that, trimmed and
\* lower-cased, is cancelled, void, closed or their two Chinese forms
C5_NoInvalidStatus == \A fr \in RawFrames : ValidStatuses(fr.report) /\ ValidStatuses(fr.details)

\* the text of a raw CSV line under the column that maps to name
RawField(file, r, name) ==
    file.lines[r][CHOOSE i \in 1..Len(file.lines[1]) :
                    AliasTarget(Strip(file.lines[1][i])) = name]

HasField(file, name) ==
    \E i \in 1..Len(file.lines[1]) : AliasTarget(Strip(file.lines[1][i])) = name

\* a report CSV with cancelled, void and closed lines and a JSON file with a
\* cancelled order were loaded, and rows remain
C5_InvalidRowsLoaded ==
    /\ pc = "save"
    /\ \E i \in 1..Len(disk) :
          /\ ReportChunks(disk[i]) # <<>> /\ ~IsJsonPath(disk[i].path)
          /\ \E r \in 2..Len(disk[i].lines) :
                Lower(Strip(RawField(disk[i], r, "status"))) \in ClaimInvalidStatuses
    /\ \E i \in 1..Len(disk) :
          /\ IsJsonPath(disk[i].path)
          /\ \E r \in 1..Len(disk[i].orders) : disk[i].orders[r].status = "CANCELLED"
    /\ Len(df_report.rows) > 0

\* all-digit text of at most 4 characters, as the raw file holds it
ShortNumericId(t) ==
    /\ Len(t) >= 1 /\ Len(t) <= 4
    /\ \A i \in 1..Len(t) : SubSeq(t, i, i) \in {"0", "1", "2", "3", "4", "5", "6", "7", "8", "9"}

\* the report lines of the raw CSV files on disk: file index and line number
ReportLines ==
    UNION {{<<f, r>> : r \in 2..Len(disk[f].lines)} :
             f \in {i \in 1..Len(disk) :
                      /\ ~IsJsonPath(disk[i].path)
                      /\ ReportChunks(disk[i]) # <<>>
                      /\ HasField(disk[i], "order_id") /\ HasField(disk[i], "date")}}

\* the calendar day of a final row
DayOf(row) == SubSeq(row["date"].v, 1, 10)

\* C10: two report lines with the same all-digit order number of at most 4 digits
\* and valid timestamps on different days are both in the final report, under
\* different order_ids, each on its own day
C10_DailyIdsKeptApart ==
    (pc = "save") =>
        \A p, q \in ReportLines :
            LET id1 == Strip(RawField(disk[p[1]], p[2], "order_id"))
                id2 == Strip(RawField(disk[q[1]], q[2], "order_id"))
                d1 == ToDatetime(Str(RawField(disk[p[1]], p[2], "date")))
                d2 == ToDatetime(Str(RawField(disk[q[1]], q[2], "date")))
                Kept(line) ==
                    ~HasField(disk[line[1]], "status")
                    \/ Lower(Strip(RawField(disk[line[1]], line[2], "status")))
                         \notin InvalidReportStatuses
            IN  (/\ id1 = id2 /\ ShortNumericId(id1)
                 /\ ~IsNA(d1) /\ ~IsNA(d2)
                 /\ SubSeq(d1.v, 1, 10) # SubSeq(d2.v, 1, 10)
                 /\ Kept(p) /\ Kept(q))
                => \E i, j \in 1..Len(df_report.rows) :
                      /\ df_report.rows[i]["order_id"] # df_report.rows[j]["order_id"]
                      /\ DayOf(df_report.rows[i]) = SubSeq(d1.v, 1, 10)
                      /\ DayOf(df_report.rows[j]) = SubSeq(d2.v, 1, 10)

(***************************************************************************)
(* Properties of scan_and_load over several calls                          *)
(***************************************************************************)
\* what call k added to debug_logs
CallLogs(k) ==
    LET before == IF k = 1 THEN 0 ELSE Len(returned[k - 1].logs)
        events == SubSeq(returned[k].logs, before + 1, Len(returned[k].logs))
    IN  {events[i].event : i \in 1..Len(events)}

\* C6: a raw parse that wrote the cache, followed by a cache hit over the same raw
\* files, returns the same report and details frames both times: same rows, same
\* values, same value types
C6_ColdWarmIdentical ==
    \A k \in 2..Len(returned) :
        (/\ returned[k - 1].via = "raw" /\ "cache-saved" \in CallLogs(k - 1)
         /\ returned[k].via = "cache")
        => /\ returned[k].report = returned[k - 1].report
           /\ returned[k].details = returned[k - 1].details

\* the rule of the claim: both cache files exist and the older of them is at least
\* as new as every candidate raw file of the walk
CacheUsable(walked) ==
    /\ cache.report.exists /\ cache.details.exists
    /\ \A i \in 1..Len(walked) :
          /\ FileAt(disk, walked[i]).mtime <= cache.report.mtime
          /\ FileAt(disk, walked[i]).mtime <= cache.details.mtime

Paths(walked) == {walked[i] : i \in 1..Len(walked)}

NothingParsed == UNCHANGED <<seen_files, report_data, details_data, invoice_data>>

ReturnsCache ==
    /\ pc' = "done"
    /\ returned' = Append(returned, Result("cache", cache.report.frame, cache.details.frame,
                                           debug_logs'))

\* the decision at the start of a call
DecidesByRule ==
    (pc = "idle" /\ pc' # "idle") =>
        IF CacheUsable(raw_files_to_process') THEN pc' = "read_cache" /\ NothingParsed
        ELSE pc' = "parse" /\ todo' = 1 /\ seen_files' = {} /\ report_data' = <<>>

\* the parse loop ends only when every candidate has been processed
ParsesEveryFile ==
    (pc = "parse" /\ pc' # "parse") => seen_files = Paths(raw_files_to_process)

WritesBothFiles ==
    /\ cache'.report = Written(df_report, clock)
    /\ cache'.details = Written(df_details, clock)

\* C7 as stated: a usable cache is returned and nothing is parsed; otherwise every
\* candidate is processed, merged, and then both cache files are written
C7_DecisionAsStated ==
    [][/\ DecidesByRule
       /\ pc = "read_cache" => ReturnsCache /\ NothingParsed
       /\ ParsesEveryFile
       /\ (pc = "parse" /\ pc' # "parse") => pc' = "save"
       /\ pc = "save" => WritesBothFiles]_vars

\* C7: the cache is used exactly when both files exist and the older is at least as
\* new as every candidate raw file; then the cached frames are returned and nothing
\* is parsed, unless reading them fails, which starts the raw parse; the raw parse
\* processes every candidate and merges; unless the merge raises, both cache files
\* are then written, or the failure to write them is logged
C7_Decision ==
    [][/\ DecidesByRule
       /\ pc = "read_cache" =>
             \/ ReturnsCache /\ NothingParsed
             \/ /\ pc' = "parse" /\ todo' = 1 /\ seen_files' = {} /\ report_data' = <<>>
                /\ debug_logs'[Len(debug_logs) + 1] = Log("cache-load-failed", "")
       /\ ParsesEveryFile
       /\ (pc = "parse" /\ pc' # "parse") =>
             \/ pc' = "save" /\ df_report' = MergeReport(report_data, invoice_data)
             \/ pc' = "done" /\ returned'[Len(returned')].via = "raised"
       /\ pc = "save" =>
             \/ WritesBothFiles
             \/ debug_logs'[Len(debug_logs')] = Log("cache-save-failed", "")]_vars

\* a raw parse that wrote both files, then a call that returned them unparsed
C7_HitAfterMiss ==
    /\ Len(returned) = 2
    /\ returned[1].via = "raw" /\ "cache-saved" \in CallLogs(1)
    /\ returned[2].via = "cache" /\ CallLogs(2) = {"cache-hit", "cache-loaded"} \cup
                                     (CallLogs(2) \cap {"missing-directory"})
    /\ Len(disk) > 0
    /\ pc = "done"

\* C8: a failure to read the cache is logged and the call goes on to the full raw
\* parse and returns the parsed frames; a failure to write the cache is logged and
\* the call returns the frames it parsed; neither leaves scan_and_load
C8_CacheFailuresContained ==
    /\ [][/\ pc = "read_cache" =>
                \/ ReturnsCache
                \/ /\ pc' = "parse" /\ todo' = 1 /\ seen_files' = {}
                   /\ report_data' = <<>> /\ details_data' = <<>> /\ invoice_data' = <<>>
                   /\ debug_logs'[Len(debug_logs) + 1].event = "cache-load-failed"
                   /\ returned' = returned
          /\ pc = "save" =>
                /\ pc' = "done"
                /\ returned' = Append(returned, Result("raw", df_report, df_details, debug_logs'))
                /\ ~WritesBothFiles => debug_logs'[Len(debug_logs')].event = "cache-save-failed"]_vars
    /\ [](\A k \in 1..Len(returned) :
             "cache-load-failed" \in CallLogs(k) =>
                 /\ returned[k].via = "raw"
                 /\ (k = Len(returned) /\ pc = "done") =>
                       /\ seen_files = Paths(raw_files_to_process)
                       /\ returned[k].report = MergeReport(report_data, invoice_data)
                       /\ returned[k].details = MergeDetails(details_data, returned[k].report))

\* one call in which the read of a valid cache failed and, after the raw parse, the
\* write failed too, and which returned the parsed rows
C8_BothFailuresInOneCall ==
    /\ pc = "done"
    /\ Len(returned) = 2
    /\ {"cache-load-failed", "cache-save-failed"} \subseteq CallLogs(2)
    /\ returned[2].via = "raw"
    /\ Len(returned[2].report.rows) > 0

(***************************************************************************)
(* Properties of enrich_data                                               *)
(***************************************************************************)
\* the text of a cell, nothing for a missing one
TextOf(c) == IF IsNA(c) \/ c = NoneCell THEN "" ELSE Strip(AsStr(c).v)

\* a phone of more than 6 characters, not masked, not a platform phone
SeenPhone(row) ==
    /\ Len(TextOf(row["member_phone"])) > 6
    /\ ~Contains(TextOf(row["member_phone"]), "*")
    /\ \A k \in known_platforms : ~HasSubstring(TextOf(row["member_phone"]), k)

\* the rows of the report that have the carrier and a valid phone
SeenWith(carrier) ==
    {i \in 1..Len(df_report.rows) :
        df_report.rows[i]["carrier_id"] = carrier /\ SeenPhone(df_report.rows[i])}

\* the rows of the (carrier, phone, name) group of row i
GroupOf(i) ==
    {j \in SeenWith(df_report.rows[i]["carrier_id"]) :
        /\ TextOf(df_report.rows[j]["member_phone"]) = TextOf(df_report.rows[i]["member_phone"])
        /\ TextOf(df_report.rows[j]["customer_name"]) = TextOf(df_report.rows[i]["customer_name"])}

RowStamp(i) == ToDatetime(df_report.rows[i]["date"]).v

Days(group) == Cardinality({SubSeq(RowStamp(j), 1, 10) : j \in group})

Latest(group) == CHOOSE m \in {RowStamp(j) : j \in group} :
                    \A j \in group : ~StrLess(m, RowStamp(j))

RECURSIVE Spent(_)
Spent(group) ==
    IF group = {} THEN 0
    ELSE LET j == CHOOSE x \in group : TRUE
         IN  ParseNat(df_report.rows[j]["total_amount"].v) + Spent(group \ {j})

\* group g ranks strictly above group h
Outranks(g, h) ==
    \/ Days(g) > Days(h)
    \/ Days(g) = Days(h) /\ StrLess(Latest(h), Latest(g))
    \/ Days(g) = Days(h) /\ Latest(g) = Latest(h) /\ Spent(g) > Spent(h)

\* the phones of the groups of the carrier that no other group outranks
CanonicalPhones(carrier) ==
    {TextOf(df_report.rows[i]["member_phone"]) :
        i \in {k \in SeenWith(carrier) :
                 \A h \in SeenWith(carrier) : ~Outranks(GroupOf(h), GroupOf(k))}}

\* C9: every row with a carrier_id of more than 4 characters and a missing or empty
\* phone gets Member_ID CRM_ and the phone of the carrier's first-ranked (carrier,
\* phone, name) group - most distinct dates, then latest date, then largest summed
\* total, over the rows with that carrier and a valid phone - and Carrier_ and the
\* carrier_id when the carrier was never seen with a valid phone
C9_CarrierIdentity ==
    enriched # <<>> =>
        \A k \in 1..Len(df_report.rows) :
            LET carrier == df_report.rows[k]["carrier_id"]
                id == enriched[1].rows[k]["Member_ID"]
            IN  (Len(TextOf(carrier)) > 4 /\ TextOf(df_report.rows[k]["member_phone"]) = "")
                => IF SeenWith(carrier) = {}
                   THEN id = Str("Carrier_" \o TextOf(carrier))
                   ELSE \E p \in CanonicalPhones(carrier) : id = Str("CRM_" \o p)

(***************************************************************************)
(* Properties of the order_id rewrite                                      *)
(***************************************************************************)
\* the detail lines of the raw CSV files on disk: file index and line number
DetailsLines ==
    UNION {{<<f, r>> : r \in 2..Len(disk[f].lines)} :
             f \in {i \in 1..Len(disk) :
                      /\ ~IsJsonPath(disk[i].path)
                      /\ DetailsChunks(disk[i]) # <<>>
                      /\ HasField(disk[i], "order_id") /\ HasField(disk[i], "date")}}

\* a line of a raw CSV file that has an order number
HasOrderNo(p) == RawField(disk[p[1]], p[2], "order_id") \notin NaValues

\* the order_id the cleaner gives to a line that has an order number: the cleaner
\* keeps the lines in order and drops those without one
CleanedId(p) ==
    LET file == disk[p[1]]
        cleaned == CleanOrderId(CleanDate(MapColumns(ReadCsv(file.lines, 0))))
        at == Cardinality({k \in 2..p[2] : RawField(file, k, "order_id") \notin NaValues})
    IN  cleaned.rows[at]["order_id"]

\* C11: a line of a CSV report and a line of a CSV details file with the same order
\* number and the same timestamp get the same order_id from the cleaners, and the
\* detail rows of a JSON order carry the order_id of its report row
C11_SameRewrite ==
    pc = "save" =>
        /\ \A p \in ReportLines, q \in DetailsLines :
              (/\ HasOrderNo(p) /\ HasOrderNo(q)
               /\ Strip(RawField(disk[p[1]], p[2], "order_id"))
                    = Strip(RawField(disk[q[1]], q[2], "order_id"))
               /\ RawField(disk[p[1]], p[2], "date") = RawField(disk[q[1]], q[2], "date"))
              => CleanedId(p) = CleanedId(q)
        /\ \A f \in {i \in 1..Len(disk) : IsJsonPath(disk[i].path)} :
              \A k \in 1..Len(DetailsChunks(disk[f])) :
                 \A d \in 1..Len(DetailsChunks(disk[f])[k].rows) :
                    \E n \in 1..Len(ReportChunks(disk[f])) :
                       \E r \in 1..Len(ReportChunks(disk[f])[n].rows) :
                          /\ ReportChunks(disk[f])[n].rows[r]["order_id"]
                               = DetailsChunks(disk[f])[k].rows[d]["order_id"]
                          /\ ReportChunks(disk[f])[n].rows[r]["date"]
                               = DetailsChunks(disk[f])[k].rows[d]["date"]

(***************************************************************************)
(* Properties of the details enrichment                                    *)
(***************************************************************************)
\* the sum of qty over the rows of order id in the returned details that Keep admits
QtyOf(id, Keep(_)) ==
    SumOver(SeqFilter(LAMBDA row : row["order_id"] = id /\ Keep(row), enriched[2].rows), "qty")

IsMain(row) == row["Is_Main_Dish"] = BoolCell(TRUE)
NotModifier(row) == row["Is_Modifier"] = BoolCell(FALSE)

\* C12: after enrich_data, for every order_id the qty summed over its main-dish
\* rows does not exceed the qty summed over its rows that are not modifiers
C12_MainDishWithinItems ==
    (enriched # <<>> /\ "Is_Main_Dish" \in enriched[2].cols) =>
        \A id \in ColValues(enriched[2], "order_id") :
            QtyOf(id, IsMain) <= QtyOf(id, NotModifier)

\* every main-dish row is a row that is not a modifier
MainDishesAreItems ==
    (enriched # <<>> /\ "Is_Main_Dish" \in enriched[2].cols) =>
        \A i \in 1..Len(enriched[2].rows) :
            IsMain(enriched[2].rows[i]) => NotModifier(enriched[2].rows[i])

(***************************************************************************)
(* Properties of the details consolidation of _merge_data                  *)
(***************************************************************************)
\* the concatenated details chunks _merge_data starts from
AllDetails == FillDataSource(Concat(details_data))

\* the rows of f with order_id id that are json rows (json = TRUE) or are not
SourcedRows(f, id, json) ==
    SeqFilter(LAMBDA row : AsStr(row["order_id"]).v = id /\ IsJsonRow(row) = json, f.rows)

\* the order ids of the json rows of f
JsonIds(f) ==
    {AsStr(f.rows[i]["order_id"]).v : i \in {k \in 1..Len(f.rows) : IsJsonRow(f.rows[k])}}

\* C13: no order_id of the final details frame has both json and csv rows; for an
\* order_id with a json detail row among the loaded chunks, every csv row is dropped
\* and every json row is kept
C13_JsonDetailsReplaceCsv ==
    (pc = "save" /\ details_data # <<>> /\ "order_id" \in AllDetails.cols) =>
        /\ \A id \in JsonIds(df_details) : SourcedRows(df_details, id, FALSE) = <<>>
        /\ \A id \in JsonIds(AllDetails) :
              /\ SourcedRows(df_details, id, FALSE) = <<>>
              /\ SourcedRows(df_details, id, TRUE) = SourcedRows(AllDetails, id, TRUE)

\* an order whose lines were loaded from a details CSV and from a JSON file
C13_OrderInBothSources ==
    /\ pc = "save"
    /\ details_data # <<>> /\ "order_id" \in AllDetails.cols
    /\ \E id \in JsonIds(AllDetails) :
          /\ SourcedRows(AllDetails, id, FALSE) # <<>>
          /\ SourcedRows(df_details, id, TRUE) # <<>>
          /\ Len(df_details.rows) < Len(AllDetails.rows)

(***************************************************************************)
(* Properties of the raw scan                                              *)
(***************************************************************************)
RECURSIVE Distinct(_)
\* the paths of a walk, each at its first place
Distinct(paths) ==
    IF paths = <<>> THEN <<>>
    ELSE LET front == SubSeq(paths, 1, Len(paths) - 1)
             last == paths[Len(paths)]
         IN  IF \E i \in 1..Len(front) : front[i] = last THEN Distinct(front)
             ELSE Append(Distinct(front), last)

\* the paths the loop of the raw scan has gone through
Scanned == Distinct(SubSeq(raw_files_to_process, 1, todo - 1))

RECURSIVE DetailsOf(_)
\* the details chunks of the files at paths, one file after the other
DetailsOf(paths) ==
    IF paths = <<>> THEN <<>>
    ELSE DetailsChunks(FileAt(disk, Head(paths))) \o DetailsOf(Tail(paths))

RECURSIVE ChunkRows(_)
\* the cleaned rows of chunks, one after the other
ChunkRows(chunks) ==
    IF chunks = <<>> THEN <<>> ELSE Head(chunks).rows \o ChunkRows(Tail(chunks))

\* how many rows of rows are equal to row on the columns of row
CountOf(row, rows) ==
    Cardinality({i \in 1..Len(rows) : \A c \in DOMAIN row : rows[i][c] = row[c]})

\* C14: during a raw scan every candidate file is processed once, however often the
\* walk lists its path, and the concatenated details frame holds every cleaned row of
\* every details file as often as the files hold it: equal line items stay apart and
\* no file is counted twice
C14_DetailsKeepMultiplicity ==
    (pc = "save" \/ (pc = "parse" /\ raw_files_to_process # <<>>)) =>
        /\ seen_files = {Scanned[i] : i \in 1..Len(Scanned)}
        /\ details_data = DetailsOf(Scanned)
        /\ Len(Concat(details_data).rows) = Len(ChunkRows(DetailsOf(Scanned)))
        /\ \A i \in 1..Len(ChunkRows(details_data)) :
              \A c \in DOMAIN ChunkRows(details_data)[i] :
                  Concat(details_data).rows[i][c] = ChunkRows(details_data)[i][c]

\* a details file listed twice by the walk, holding one line item twice, after the scan
C14_RepeatedLineListedTwice ==
    /\ pc = "save"
    /\ \E i, j \in 1..Len(raw_files_to_process) :
          /\ i < j
          /\ raw_files_to_process[i] = raw_files_to_process[j]
          /\ LET chunks == DetailsChunks(FileAt(disk, raw_files_to_process[i]))
             IN  /\ chunks # <<>>
                 /\ \E r \in 1..Len(chunks[1].rows) :
                       /\ CountOf(chunks[1].rows[r], chunks[1].rows) = 2
                       /\ CountOf(chunks[1].rows[r], Concat(details_data).rows) = 2

(***************************************************************************)
(* Properties of the error handling of _process_file                       *)
(***************************************************************************)
\* a file on which read_csv or json.load raises
Unreadable(file) ==
    IF IsJsonPath(file.path) THEN file.lines # <<>> ELSE file.lines = <<>>

\* the paths gone through whose files could be read
ScannedReadable == SelectSeq(Scanned, LAMBDA p : ~Unreadable(FileAt(disk, p)))

RECURSIVE ReportOf(_)
ReportOf(paths) ==
    IF paths = <<>> THEN <<>>
    ELSE ReportChunks(FileAt(disk, Head(paths))) \o ReportOf(Tail(paths))

RECURSIVE InvoiceOf(_)
InvoiceOf(paths) ==
    IF paths = <<>> THEN <<>>
    ELSE InvoiceChunks(FileAt(disk, Head(paths))) \o InvoiceOf(Tail(paths))

\* the loop of the raw scan is at a file it has not seen and that cannot be read
AtUnreadable ==
    /\ pc = "parse"
    /\ todo <= Len(raw_files_to_process)
    /\ raw_files_to_process[todo] \notin seen_files
    /\ Unreadable(FileAt(disk, raw_files_to_process[todo]))

\* C15: a file whose processing raises gets one error line with its name, adds
\* nothing to report_data, details_data or invoice_data, and the scan goes on to the
\* next file; after the scan the accumulators hold the chunks of every other file
C15_ErrorsStayInTheirFile ==
    /\ [][AtUnreadable =>
            /\ debug_logs' = Append(debug_logs,
                                    Log("error", Basename(raw_files_to_process[todo])))
            /\ UNCHANGED <<report_data, details_data, invoice_data>>
            /\ pc' = "parse" /\ todo' = todo + 1]_vars
    /\ [](pc = "save" =>
            /\ seen_files = {raw_files_to_process[i] : i \in 1..Len(raw_files_to_process)}
            /\ report_data = ReportOf(ScannedReadable)
            /\ details_data = DetailsOf(ScannedReadable)
            /\ invoice_data = InvoiceOf(ScannedReadable)
            /\ df_report = MergeReport(report_data, invoice_data))

\* a scan over an unreadable file and a report, merged
C15_ScanPastUnreadable ==
    /\ pc = "save"
    /\ \E i \in 1..Len(disk) :
          /\ Unreadable(disk[i])
          /\ \E k \in 1..Len(debug_logs) : debug_logs[k] = Log("error", Basename(disk[i].path))
    /\ report_data # <<>>
    /\ ~IsEmpty(df_report)

(***************************************************************************)
(* Properties of latest_dates                                              *)
(***************************************************************************)
\* the attribute latest_dates exists and is a mapping with the four keys
HasLatestDates == DOMAIN latest_dates = {"json", "csv_report", "csv_details", "invoice"}

\* the last call returned frames, from a raw parse or from the cache
Returned == pc = "done" /\ Len(returned) > 0 /\ returned[Len(returned)].via \in {"raw", "cache"}

\* C16: after scan_and_load has returned, from a raw parse or from the cache, the
\* loader has a latest_dates mapping with the keys json, csv_report, csv_details and
\* invoice
C16_LatestDatesExposed == Returned => HasLatestDates

\* the same, for the calls that parsed the raw files
LatestDatesAfterRawParse ==
    (Returned /\ returned[Len(returned)].via = "raw") => HasLatestDates

(***************************************************************************)
(* Properties of the debug log                                             *)
(***************************************************************************)
\* the loop of the raw scan is at a file it has not seen
AtNewFile ==
    /\ pc = "parse"
    /\ todo <= Len(raw_files_to_process)
    /\ raw_files_to_process[todo] \notin seen_files

\* C17: during a raw scan, processing a candidate file appends at least one line to
\* the debug log that names the file
C17_EveryFileLogged ==
    [][AtNewFile =>
          \E k \in (Len(debug_logs) + 1)..Len(debug_logs') :
              debug_logs'[k].file = Basename(raw_files_to_process[todo])]_vars

\* the same, for every file but a JSON file with orders of which none is COMPLETED
EveryOtherFileLogged ==
    [][(/\ AtNewFile
        /\ LET file == FileAt(disk, raw_files_to_process[todo])
           IN  ~(/\ IsJsonPath(file.path) /\ file.lines = <<>> /\ file.orders # <<>>
                 /\ \A i \in 1..Len(file.orders) : ~JsonAdmitted(file.orders[i])))
       => \E k \in (Len(debug_logs) + 1)..Len(debug_logs') :
              debug_logs'[k].file = Basename(raw_files_to_process[todo])]_vars

(***************************************************************************)
(* Properties of the messy-header retry                                    *)
(***************************************************************************)
\* a first line that is metadata: a first cell of more than 20 characters with a
\* digit in it, or more than half of the cells empty
MetadataRow(row) ==
    \/ Len(row[1]) > 20 /\ \E i \in 1..Len(row[1]) : CharAt(row[1], i) \in Digits
    \/ 2 * Cardinality({i \in 1..Len(row) : row[i] = ""}) > Len(row)

\* the file without its first line
Stripped(file) == [file EXCEPT !.lines = Tail(@)]

\* the log says that the header was found messy
SaidMessy == \E k \in 1..Len(debug_logs) : debug_logs[k].event = "messy-header"

\* what the file adds when its first line is taken for the header
ReadFromFirstLine(file) ==
    ProcessCsv(file, ReadCsv(file.lines, 0), FALSE, Basename(file.path))

\* C18: a CSV with a metadata line above its header is loaded into the columns and
\* rows of the same file without that line, and the retry is logged; a CSV that
\* starts with its header is read from its first line
C18_TitleLineSkipped ==
    (pc = "save" /\ Len(disk) = 1 /\ ~IsJsonPath(disk[1].path) /\ Len(disk[1].lines) > 1) =>
        IF MetadataRow(disk[1].lines[1])
        THEN /\ SaidMessy
             /\ report_data = ReportChunks(Stripped(disk[1]))
             /\ details_data = DetailsChunks(Stripped(disk[1]))
             /\ invoice_data = InvoiceChunks(Stripped(disk[1]))
        ELSE /\ ~SaidMessy
             /\ report_data = ReadFromFirstLine(disk[1]).report
             /\ details_data = ReadFromFirstLine(disk[1]).details
             /\ invoice_data = ReadFromFirstLine(disk[1]).invoice

\* an export with a line above its header, loaded with rows
C18_TitledExportLoaded ==
    /\ pc = "save"
    /\ Len(disk) = 1 /\ ~IsJsonPath(disk[1].path) /\ Len(disk[1].lines) > 1
    /\ MetadataRow(disk[1].lines[1])
    /\ ~MetadataRow(disk[1].lines[2])
    /\ details_data # <<>> /\ Len(details_data[1].rows) > 0
    /\ "order_id" \in details_data[1].cols

(***************************************************************************)
(* Properties of enrich_data on cached frames                              *)
(***************************************************************************)
\* the values of column c, row by row, nothing when the frame has no such column
ColumnOf(f, c) ==
    IF c \in f.cols THEN [i \in 1..Len(f.rows) |-> f.rows[i][c]] ELSE <<>>

\* the derived values of one result of enrich_data
Derived(out) ==
    <<ColumnOf(out.report, "Member_ID"), ColumnOf(out.report, "people_count"),
      ColumnOf(out.details, "Is_Main_Dish")>>

\* call k returned the cache that call k - 1 wrote after its raw parse
WarmAfterCold(k) ==
    /\ k \in 2..Len(returned)
    /\ returned[k - 1].via = "raw" /\ "cache-saved" \in CallLogs(k - 1)
    /\ returned[k].via = "cache"

\* C19: enrich_data on the frames of a cache hit does not raise and derives the same
\* Member_ID, Is_Main_Dish and people_count as on the frames of the raw parse that
\* wrote the cache
C19_WarmEnrichSame ==
    \A k \in 1..Len(returned) :
        (WarmAfterCold(k) /\ Enrich(returned[k - 1].report, returned[k - 1].details).raised = "")
        => LET cold == Enrich(returned[k - 1].report, returned[k - 1].details)
               warm == Enrich(returned[k].report, returned[k].details)
           IN  warm.raised = "" /\ Derived(warm) = Derived(cold)

\* the same, for the exception alone
WarmEnrichCompletes ==
    \A k \in 1..Len(returned) :
        (WarmAfterCold(k) /\ Enrich(returned[k - 1].report, returned[k - 1].details).raised = "")
        => Enrich(returned[k].report, returned[k].details).raised = ""

(***************************************************************************)
(* Properties of get_member_id                                             *)
(***************************************************************************)
\* the text of a field as the identity rules read it: nothing for a missing value
FieldText(c) == IF IsNA(c) THEN "" ELSE Strip(AsStr(c).v)

\* the phone of a row, absent when it is masked
UsablePhone(row) ==
    LET p == RemoveChars(FieldText(row["member_phone"]), {" "})
    IN  IF Contains(p, "*") THEN "" ELSE p

\* the platform phones of the report handed to enrich_data
PlatformPhones == platform_phones(EnsureColumns(ParseDates(df_report)))

\* the identity the tiers give to a row
TierIdentity(row) ==
    LET phone == UsablePhone(row)
        name == FieldText(row["customer_name"])
        carrier == FieldText(row["carrier_id"])
        platform == IsPlatform(phone, PlatformPhones)
    IN  IF platform /\ name # "" THEN Str("UE_" \o name)
        ELSE IF ~platform /\ Len(phone) > 6 THEN Str("CRM_" \o phone)
        ELSE IF Len(carrier) > 4 THEN Str("Carrier_" \o carrier)
        ELSE NoneCell

\* the rows of the returned report, whose phone and name the carrier back-fill has set
IdentifiedRows ==
    IF enriched = <<>> \/ "Member_ID" \notin enriched[1].cols THEN {}
    ELSE {enriched[1].rows[k] : k \in 1..Len(enriched[1].rows)}

\* C20: the Member_ID of every report row follows the tiers - a masked phone counts
\* as absent; a platform phone gives UE_ and the name when there is a name and counts
\* as absent otherwise; then CRM_ and the phone when it is longer than 6; then
\* Carrier_ and the carrier id when it is longer than 4; else no identity
C20_TieredIdentity ==
    \A row \in IdentifiedRows : row["Member_ID"] = TierIdentity(row)

\* the same, for the rows whose customer_name is not None
TieredIdentityNamed ==
    \A row \in IdentifiedRows :
        row["customer_name"] # NoneCell => row["Member_ID"] = TierIdentity(row)

\* a masked phone and a platform phone never give a CRM_ identity
NoCrmForMaskedOrPlatform ==
    \A row \in IdentifiedRows :
        (\/ Contains(FieldText(row["member_phone"]), "*")
         \/ IsPlatform(UsablePhone(row), PlatformPhones))
        => ~(~IsNA(row["Member_ID"]) /\ StartsWith(row["Member_ID"].v, "CRM_"))

(***************************************************************************)
(* Properties of the platform phones                                       *)
(***************************************************************************)
\* the rows of the report handed to enrich_data that give the phone p, spaces aside
GivenBy(p) ==
    {k \in 1..Len(df_report.rows) :
        RemoveChars(FieldText(df_report.rows[k]["member_phone"]), {" "}) = p}

\* the phones of length 6 or more without '*' that come with at least 10 distinct names
SharedByTen ==
    {p \in {UsablePhone(df_report.rows[k]) : k \in 1..Len(df_report.rows)} :
        /\ Len(p) >= 6
        /\ Cardinality({df_report.rows[k]["customer_name"] :
                          k \in {j \in GivenBy(p) :
                                   ~IsNA(df_report.rows[j]["customer_name"])}}) >= 10}

\* a row whose name is a text, so that a platform phone shows in its identity
NamedRow(row) == row["customer_name"].t = "str" /\ FieldText(row["customer_name"]) # ""

\* the row was given the identity of a platform customer
TreatedAsPlatform(row) == ~IsNA(row["Member_ID"]) /\ StartsWith(row["Member_ID"].v, "UE_")

HoldsHardcoded(p) == \E k \in known_platforms : HasSubstring(p, k)

\* C21, as stated: a named row is treated as a platform customer exactly when its
\* phone is shared by ten names or is one of the hardcoded numbers
C21_PlatformPhonesExact ==
    \A row \in IdentifiedRows :
        NamedRow(row) =>
            (TreatedAsPlatform(row) <=> UsablePhone(row) \in SharedByTen \cup known_platforms)

\* C21: a named row is treated as a platform customer exactly when its phone is shared
\* by ten names, is one of the hardcoded numbers or contains one of them
C21_PlatformPhones ==
    \A row \in IdentifiedRows :
        NamedRow(row) =>
            (TreatedAsPlatform(row) <=> \/ UsablePhone(row) \in SharedByTen \cup known_platforms
                                        \/ HoldsHardcoded(UsablePhone(row)))

\* a phone given with ten names made its orders platform orders, next to an order
\* whose phone only contains a hardcoded number
C21_TenNamesShareAPhone ==
    /\ SharedByTen # {}
    /\ \E row \in IdentifiedRows :
          NamedRow(row) /\ UsablePhone(row) \in SharedByTen /\ TreatedAsPlatform(row)
    /\ \E row \in IdentifiedRows :
          /\ NamedRow(row) /\ TreatedAsPlatform(row)
          /\ UsablePhone(row) \notin SharedByTen \cup known_platforms

(***************************************************************************)
(* Properties of the carrier back-fill                                     *)
(***************************************************************************)
\* the report of enrich_data when the back-fill starts
ReadyReport == EnsureColumns(ParseDates(df_report))

\* the canonical (carrier, phone, name) groups of a carrier
Canonical(carrier) ==
    {g \in best_carriers(CarrierRows(ReadyReport, PlatformPhones)) : g.key[1] = carrier}

\* row k of the returned report has the phone and the name of the carrier's group
BackfilledFrom(k, carrier) ==
    \E g \in Canonical(carrier) :
        /\ enriched[1].rows[k]["member_phone"] = g.key[2]
        /\ enriched[1].rows[k]["customer_name"] = g.key[3]

\* the phone of a row is that of a platform
PlatformRow(row) ==
    LET p == RemoveChars(FieldText(row["member_phone"]), {" "})
    IN  p \in PlatformPhones \/ HoldsHardcoded(p)

\* the phone of a row is missing, empty or masked
NoPhoneRow(row) ==
    \/ FieldText(row["member_phone"]) = ""
    \/ Contains(FieldText(row["member_phone"]), "*")

\* the phone of a row has at most 6 characters
ShortPhoneRow(row) == Len(RemoveChars(FieldText(row["member_phone"]), {" "})) <= 6

\* the rows of the report that have a carrier id of more than 4 characters which
\* has a canonical mapping
MappedRows ==
    IF enriched = <<>> THEN {}
    ELSE {k \in 1..Len(df_report.rows) :
            /\ Len(FieldText(df_report.rows[k]["carrier_id"])) > 4
            /\ Canonical(df_report.rows[k]["carrier_id"]) # {}}

FileAtHand == FileAt(disk, raw_files_to_process[todo])

\* the loop of the raw scan is at a CSV file it has not seen, with a header line
AtNewCsv == AtNewFile /\ ~IsJsonPath(FileAtHand.path) /\ FileAtHand.lines # <<>>

\* no rule of _classify_by_filename names a type for the file
NoNameRule(file) ==
    LET fn == Lower(Basename(file.path))
    IN  /\ ~HasSubstring(fn, "transaction report")
        /\ ~HasSubstring(fn, "history_report")
        /\ \/ HasSubstring(fn, "undefined")
           \/ ~HasSubstring(fn, "fapiao") /\ ~HasSubstring(fn, "invoice")

\* the type the mapped columns of a file stand for
TypeByColumns(file) ==
    IF HasField(file, "item_name") THEN "details"
    ELSE IF HasField(file, "order_id") /\ HasField(file, "total_amount") THEN "report"
    ELSE IF HasField(file, "invoice_id") /\ ~HasField(file, "order_id") THEN "invoice"
    ELSE "none"

\* this turn of the loop adds one chunk to the accumulator of type and none to the
\* others, and logs the file as loaded as type or as skipped
LoadsAs(type) ==
    /\ Len(report_data') = Len(report_data) + (IF type = "report" THEN 1 ELSE 0)
    /\ Len(details_data') = Len(details_data) + (IF type = "details" THEN 1 ELSE 0)
    /\ Len(invoice_data') = Len(invoice_data) + (IF type = "invoice" THEN 1 ELSE 0)
    /\ debug_logs' = Append(debug_logs,
                            Log(IF type = "none" THEN "skipped" ELSE "loaded-" \o type,
                                Basename(FileAtHand.path)))

\* C23: a CSV file whose name matches no filename rule is loaded as details when it
\* has an item_name column, else as report when it has order_id and total_amount,
\* else as invoice when it has invoice_id and no order_id; else it is logged as
\* skipped and adds no chunk to any accumulator
C23_ClassifiedByColumns ==
    [][(AtNewCsv /\ NoNameRule(FileAtHand)) => LoadsAs(TypeByColumns(FileAtHand))]_vars

\* the scan went over an export that no rule names and that has no column to
\* classify it by: it was skipped
C23_ExportSkipped ==
    /\ pc = "save"
    /\ Len(disk) = 1
    /\ NoNameRule(disk[1]) /\ ~IsJsonPath(disk[1].path) /\ disk[1].lines # <<>>
    /\ TypeByColumns(disk[1]) = "none"
    /\ HasField(disk[1], "order_id")
    /\ debug_logs[Len(debug_logs) - 1] = Log("skipped", Basename(disk[1].path))
    /\ report_data = <<>> /\ details_data = <<>> /\ invoice_data = <<>>

\* the type the name of a file stands for, when a rule names one
TypeByName(file) ==
    LET fn == Lower(Basename(file.path))
    IN  IF HasSubstring(fn, "transaction report") THEN "details"
        ELSE IF HasSubstring(fn, "history_report") THEN "report"
        ELSE "invoice"

\* a file whose mapped columns include invoice_id and order_id
HasBothIds(file) == HasField(file, "invoice_id") /\ HasField(file, "order_id")

\* C24, as stated: a CSV file with both invoice_id and order_id is loaded as a
\* report, whatever its name and its other columns
C24_BothIdsIsReport ==
    [][(AtNewCsv /\ HasBothIds(FileAtHand)) => LoadsAs("report")]_vars

\* C24: a CSV file with both invoice_id and order_id whose name matches no filename
\* rule is never loaded as an invoice - it is loaded as details with an item_name
\* column, else as a report with a total_amount column, else skipped; when a rule
\* names a type, the file is loaded as that type, an invoice included
C24_BothIdsByColumns ==
    [][(AtNewCsv /\ HasBothIds(FileAtHand)) =>
          IF NoNameRule(FileAtHand)
          THEN /\ invoice_data' = invoice_data
               /\ LoadsAs(IF HasField(FileAtHand, "item_name") THEN "details"
                          ELSE IF HasField(FileAtHand, "total_amount") THEN "report"
                          ELSE "none")
          ELSE LoadsAs(TypeByName(FileAtHand))]_vars

\* an export with both ids and a total that no rule names was loaded as a report
C24_BothIdsLoadedAsReport ==
    /\ pc = "save"
    /\ Len(disk) = 1
    /\ ~IsJsonPath(disk[1].path) /\ disk[1].lines # <<>>
    /\ HasBothIds(disk[1]) /\ NoNameRule(disk[1])
    /\ Len(report_data) = 1 /\ invoice_data = <<>>
    /\ {"invoice_id", "order_id"} \subseteq report_data[1].cols

(***************************************************************************)
(* Properties of the invoice join                                          *)
(***************************************************************************)
\* the report rows before the invoice join
BeforeJoin == ConsolidateReport(report_data)

\* the invoice rows in the order they were loaded
InvoiceRows == ChunkRows(invoice_data)

\* the places of the invoice rows that have the invoice_id of a report row
InvoicesOf(row) ==
    {i \in 1..Len(InvoiceRows) :
        /\ "invoice_id" \in DOMAIN InvoiceRows[i]
        /\ ~IsNA(row["invoice_id"])
        /\ InvoiceRows[i]["invoice_id"] = row["invoice_id"]}

\* the carrier_id of the last-loaded invoice row of a report row, missing without one
InvoiceCarrier(row) ==
    IF InvoicesOf(row) = {} THEN NA
    ELSE Cell(InvoiceRows[CHOOSE i \in InvoicesOf(row) : \A j \in InvoicesOf(row) : j <= i],
              "carrier_id")

\* the invoice join has run on a report
Joined ==
    /\ pc = "save"
    /\ report_data # <<>>
    /\ InvoiceRows # <<>>
    /\ "invoice_id" \in df_report.cols
    /\ \E i \in 1..Len(InvoiceRows) : "carrier_id" \in DOMAIN InvoiceRows[i]

\* C25: after the invoice join every report row has its own carrier_id when it had
\* one, and otherwise the carrier_id of the last-loaded invoice row with its
\* invoice_id
C25_CarrierCoalesced ==
    Joined =>
        /\ Len(df_report.rows) = Len(BeforeJoin.rows)
        /\ \A k \in 1..Len(df_report.rows) :
              LET own == Cell(BeforeJoin.rows[k], "carrier_id")
                  now == df_report.rows[k]["carrier_id"]
              IN  IF ~IsNA(own) THEN now = own
                  ELSE IF IsNA(InvoiceCarrier(BeforeJoin.rows[k])) THEN IsNA(now)
                  ELSE now = InvoiceCarrier(BeforeJoin.rows[k])

\* a report with a carrier column was joined with invoices that list one invoice_id
\* twice: one row kept its carrier, another took that of the later invoice row
C25_CarrierKeptAndFilled ==
    /\ Joined
    /\ \E k \in 1..Len(df_report.rows) :
          /\ ~IsNA(Cell(BeforeJoin.rows[k], "carrier_id"))
          /\ Cardinality(InvoicesOf(BeforeJoin.rows[k])) > 1
          /\ df_report.rows[k]["carrier_id"] = Str("/MINE001")
    /\ \E k \in 1..Len(df_report.rows) :
          /\ IsNA(Cell(BeforeJoin.rows[k], "carrier_id"))
          /\ Cardinality(InvoicesOf(BeforeJoin.rows[k])) > 1
          /\ df_report.rows[k]["carrier_id"] = Str("/ZZZZ999")

(***************************************************************************)
(* Properties of Is_Main_Dish                                              *)
(***************************************************************************)
\* the details of the scan as enrich_data marks them, when it does not raise
MarkedDetails ==
    IF pc # "save" \/ IsEmpty(df_details) \/ DetailsRaise(df_details) # "" THEN <<>>
    ELSE EnrichDetails(df_details).rows

\* the line items with is_combo of the completed orders of the JSON files on disk:
\* order_id, name and product code
Wrappers ==
    UNION {UNION {{<<JsonOrderId(disk[f].orders[o]),
                     disk[f].orders[o].line_items[i].product_name,
                     disk[f].orders[o].line_items[i].product_code>> :
                      i \in {j \in 1..Len(disk[f].orders[o].line_items) :
                               disk[f].orders[o].line_items[j].is_combo}} :
                   o \in {k \in 1..Len(disk[f].orders) : JsonAdmitted(disk[f].orders[k])}} :
             f \in {g \in 1..Len(disk) : IsJsonPath(disk[g].path) /\ disk[g].lines = <<>>}}

\* the detail row emitted for a combo itself, not for one of its inner items
WrapperRow(row) ==
    /\ row["data_source"] = Str("json")
    /\ row["item_type"] = Str("Combo Item")
    /\ <<row["order_id"].v, row["item_name"].v, row["sku"].v>> \in Wrappers

\* C26: no detail row emitted for a combo itself has Is_Main_Dish = True, whatever
\* its SKU or name
C26_WrapperNeverMainDish ==
    \A k \in 1..Len(MarkedDetails) :
        WrapperRow(MarkedDetails[k]) => MarkedDetails[k]["Is_Main_Dish"] = BoolCell(FALSE)

\* the same, for the combos whose product code does not start with A or B
OtherWrappersNeverMainDish ==
    \A k \in 1..Len(MarkedDetails) :
        (/\ WrapperRow(MarkedDetails[k])
         /\ ~StartsWith(Upper(MarkedDetails[k]["sku"].v), "A")
         /\ ~StartsWith(Upper(MarkedDetails[k]["sku"].v), "B"))
        => MarkedDetails[k]["Is_Main_Dish"] = BoolCell(FALSE)

\* a combo with product code S01 was loaded and is no main dish, its inner dish is
WrapperAndInnerDishLoaded ==
    /\ \E k \in 1..Len(MarkedDetails) :
          /\ WrapperRow(MarkedDetails[k]) /\ MarkedDetails[k]["sku"] = Str("S01")
          /\ MarkedDetails[k]["Is_Main_Dish"] = BoolCell(FALSE)
    /\ \E k \in 1..Len(MarkedDetails) :
          /\ ~WrapperRow(MarkedDetails[k]) /\ MarkedDetails[k]["item_type"] = Str("Combo Item")
          /\ MarkedDetails[k]["Is_Main_Dish"] = BoolCell(TRUE)

(***************************************************************************)
(* Properties of the category                                              *)
(***************************************************************************)
\* the details enrich_data returned, when they were given a category
CategorizedRows ==
    IF enriched = <<>> \/ "category" \notin enriched[2].cols THEN {}
    ELSE {enriched[2].rows[k] : k \in 1..Len(enriched[2].rows)}

\* a detail row without a SKU
NoSku(row) == FieldText(row["sku"]) = ""

\* the item name has the word for noodles or the word for rice
NoodleOrRiceName(row) ==
    HasSubstring(FieldText(row["item_name"]), "&") \/ HasSubstring(FieldText(row["item_name"]), "%")

\* C27: a detail row with no SKU whose name has a noodle or rice keyword gets a
\* noodle or rice category (A or B), not the category of the unknown
C27_CategoryFromName ==
    \A row \in CategorizedRows :
        (NoSku(row) /\ NoodleOrRiceName(row)) => row["category"] \in {Str("A"), Str("B")}

\* a row that has a SKU gets the category of the first letters of the SKU
CategoryFromSku ==
    \A row \in CategorizedRows :
        ~NoSku(row) => row["category"] = Str(get_sku_category(Upper(FieldText(row["sku"]))))

(***************************************************************************)
(* Properties of the accumulators over several calls                       *)
(***************************************************************************)
\* the lines of a log that open a call: the cache decision, but not the line of the
\* raw scan a call falls back to when the cache cannot be read
CallOpenings(logs) ==
    {i \in 1..Len(logs) :
        \/ logs[i].event = "cache-hit"
        \/ logs[i].event = "cache-miss"
           /\ ~(i > 1 /\ logs[i - 1].event = "cache-load-failed")}

\* C28: every call of scan_and_load on the same loader returns a log that holds the
\* lines of that call only
C28_ReturnedLogOfOneCall ==
    \A k \in 1..Len(returned) : Cardinality(CallOpenings(returned[k].logs)) = 1

\* a call that parses the raw files starts with empty report_data, invoice_data,
\* details_data and seen_files
RawScanStartsEmpty ==
    [][(pc = "idle" /\ pc' = "parse") =>
          /\ report_data' = <<>> /\ invoice_data' = <<>> /\ details_data' = <<>>
          /\ seen_files' = {}]_vars

\* debug_logs only grows while the loader lives
LogNeverReset ==
    [][Len(debug_logs') >= Len(debug_logs)
       /\ SubSeq(debug_logs', 1, Len(debug_logs)) = debug_logs]_vars

(***************************************************************************)
(* Properties of the cache over a changing set of files                    *)
(***************************************************************************)
\* the candidate files present, in the order of the walk
PresentPaths == Distinct(WalkAll(disk, DATA_DIRS))

\* the report a raw parse of the files present gives, written as the cache writes it
ParsedReport == AsTypeStr(MergeReport(ReportOf(PresentPaths), InvoiceOf(PresentPaths)))

\* the call returns the frames of the cache
ReturnsFromCache == pc = "read_cache" /\ pc' = "done"

\* C29: whenever scan_and_load returns from the cache, the report it returns has
\* exactly the rows a raw parse of the candidate files present would give
C29_CacheMatchesFiles ==
    [][ReturnsFromCache => df_report'.rows = ParsedReport.rows]_vars

(***************************************************************************)
(* Properties of enrich_data on details without an options column          *)
(***************************************************************************)
\* the details handed to enrich_data are not empty and have an item_name column
NamedItems == ~IsEmpty(df_details) /\ "item_name" \in df_details.cols

\* C30: enrich_data does not raise on a non-empty details frame that has an
\* item_name column, with or without an options column, and marks every row
C30_EnrichCompletes ==
    NamedItems =>
        /\ pc = "done"
        /\ enriched # <<>> =>
              \A k \in 1..Len(enriched[2].rows) :
                  /\ enriched[2].rows[k]["Is_Main_Dish"] \in {BoolCell(TRUE), BoolCell(FALSE)}
                  /\ enriched[2].rows[k]["Is_Modifier"] \in {BoolCell(TRUE), BoolCell(FALSE)}

\* the same, for the frames that have an options column
EnrichCompletesWithOptions ==
    (NamedItems /\ "options" \in df_details.cols) =>
        /\ pc = "done"
        /\ enriched # <<>> =>
              \A k \in 1..Len(enriched[2].rows) :
                  /\ enriched[2].rows[k]["Is_Main_Dish"] \in {BoolCell(TRUE), BoolCell(FALSE)}
                  /\ enriched[2].rows[k]["Is_Modifier"] \in {BoolCell(TRUE), BoolCell(FALSE)}

====
